---- MODULE Spec2Model ----
(***************************************************************************)
(* Model of the lifecycle run-loop (extapi.Run, loop, shutdown) and of the *)
(* push-stream receiver (internal.Extension, internal.Decode) of           *)
(* aws-lambda-extensions.                                                  *)
(*                                                                         *)
(* Run drives one Extension.  The extension is either a "generic" user     *)
(* extension (callbacks succeed or fail, Err() may signal) or the          *)
(* "receiver" (internal.Extension) with its HTTP push handlers, its        *)
(* processing worker and its shutdown sequence.                            *)
(***************************************************************************)
EXTENDS Integers, Sequences, FiniteSets, TLC

\* ------------------------------------------------------------------ bounds
MaxPushes == 2      \* batches the platform pushes during one run
MaxBatchLen == 2    \* elements of one pushed batch
MaxInvokes == 2     \* INVOKE events the platform delivers during one run
MaxCalls == 3       \* calls made with one Client after it has registered
MaxOptions == 2     \* event-type options among the client options passed to Run
MaxTypes == 2       \* subscription types passed to NewLogsSubscribeRequest / NewTelemetrySubscribeRequest
MaxTelemetryEvents == 4   \* events passed to Process of one OpenTelemetry processor

\* ------------------------------------------------------------------ values
\* An error is the chain of its messages, outermost first; nil is the empty chain.
Nil == <<>>

\* fmt.Errorf("msg: %w", e)
Wrap(msg, e) == <<msg>> \o e

\* errors.Is(e, target) for a non-nil target: target is e or is wrapped by e.
Is(e, target) == \E i \in 1..Len(e) : SubSeq(e, i, Len(e)) = target

Kinds == {"generic", "receiver"}

ExtensionError == "extension_error"
ShutdownReasons == {"spindown", "failure"}   \* two of the reasons the platform sends
Deadlines == {1, 2}
ParentDeadlines == {0, 1, 2}   \* 0: the context passed to Run has no deadline

NoEvent == [type |-> "nil", reason |-> "", deadlineMs |-> 0]
InvokeEvents == [type : {"INVOKE"}, reason : {""}, deadlineMs : Deadlines]
ShutdownEvents == [type : {"SHUTDOWN"}, reason : ShutdownReasons, deadlineMs : {2}]

UserInitErr == <<"init error">>
UserHandleErr == <<"handle error">>
UserShutdownErr == <<"shutdown error">>
UserSignalErr == <<"signalled error">>
UserProcessErr == <<"process error">>
RegisterErr == <<"could not register extension">>
EnvErr == <<"could not find environment variable AWS_LAMBDA_RUNTIME_API">>
NoIdErr == <<"could not find extension ID in register response header">>
NextEventErr == <<"event/next call failed">>
CtxErr == <<"context canceled">>
ListenErr == <<"listen failed">>
SubscribeErr == <<"subscribe failed">>
ServeErr == <<"serve failed">>
MethodErr == <<"got unexpected HTTP request method">>
BracketErr == <<"malformed json array">>
ElementErr == <<"element decode failed">>

Handlers == 1..MaxPushes
WorkerIds == {1, 2}

Methods == {"POST", "GET"}

\* The tokens a request body is made of, as the streaming decoder meets them:
\* "[" and "]" are the array delimiters, "ok" an element decodeNext accepts,
\* "bad" anything else (a malformed or unknown element, a wrong or missing delimiter).
OpenTokens == {"[", "bad"}

VARIABLES
    kind,             \* the Extension Run drives
    pc,               \* position of the goroutine that called Run
    parentCancelled,  \* the context passed to Run is done
    parentDeadline,   \* its deadline (0: none)
    initCalls,        \* calls of Extension.Init
    initErr,          \* what Extension.Init returned
    polls,            \* the Client.NextEvent goroutines started by loop
    shutdownEvent,    \* loop's first result
    loopErr,          \* loop's second result
    handled,          \* calls of HandleInvokeEvent: event and context deadline
    shutdownCalls,    \* calls of Extension.Shutdown: reason, err, context deadline
    extShutdownErr,   \* what Extension.Shutdown returned
    reports,          \* init-error and exit-error reports sent to the platform
    runResult,        \* what Run returned
    errCh,            \* the Err() channel (capacity 1)
    signalled,        \* the generic extension has sent on Err()
    firstFired,       \* the first of the loop's sources to fire, until the loop returns
    worker,           \* receiver: startEventProcessing goroutines
    hpc, hidx, hreq, hresp,    \* receiver: one push handler per pushed request
    panics,           \* receiver: handlers that panicked sending on the closed channel
    eventsCh,         \* receiver: "open" or "closed"
    closes,           \* receiver: times close(eventsCh) ran
    processingDone,   \* receiver: processingDoneCh is closed
    decodeCancelled,  \* receiver: decodeCancel was called
    srv,              \* receiver: state of the HTTP server
    srvErr,           \* receiver: what srv.Shutdown returned
    passed,           \* receiver: events passed to Process, in call order
    procFailed,       \* receiver: Process calls that returned an error
    procCalls,        \* receiver: calls of Processor.Init / Shutdown and of subscribe,
                      \* and what Processor.Shutdown returned
    overlap,          \* receiver: a push arrived while another handler was running
    clientID,         \* Client.extensionID
    clientState,      \* what Register has returned: nothing yet, a Client, or an error
    requests,         \* the requests the Client has sent: operation and identifier header
    lastCall,         \* the last call of the Client: the response and what the call returned
    sub,              \* a subscription request: as built, as encoded and as decoded back
    otelProc          \* an OpenTelemetry processor: its triplet, the events it was given,
                      \* the calls of the exporter and what the last Process call returned

runVars == <<kind, pc, parentCancelled, parentDeadline, initCalls, initErr, polls,
             shutdownEvent, loopErr, handled, shutdownCalls, extShutdownErr,
             reports, runResult, errCh, signalled, firstFired>>
handlerVars == <<hpc, hidx, hreq, hresp, panics, overlap>>
recvVars == <<worker, eventsCh, closes, processingDone, decodeCancelled, srv, srvErr,
              passed, procFailed, procCalls>>
clientVars == <<clientID, clientState, requests, lastCall>>
codecVars == <<sub, otelProc>>
vars == <<runVars, handlerVars, recvVars, clientVars, codecVars>>


\* ------------------------------------------------------------------ helpers
\* Mutant: the newly reported error takes the place of the one the channel holds.
TrySendReplaces(ch, e) == <<e>>

\* select { case errCh <- err: default: } on the capacity-1 channel.
TrySend(ch, e) == IF ch = <<>> THEN <<e>> ELSE ch

\* Mutant: the deadline of the parent context is not kept when it is the earlier one.
WithDeadlineIgnoresParent(parent, d) == d

\* context.WithDeadline(parent, d): the earlier of the parent's deadline and d.
WithDeadline(parent, d) == IF parent # 0 /\ parent < d THEN parent ELSE d

\* The loop's context (derived from Run's, cancelled when loop returns) is done.
LoopCtxDone == parentCancelled \/ pc \notin {"loop", "select", "handle"}

\* loop has returned (or was never entered: Extension.Init failed).
LoopExited == pc \in {"shutdown", "sd_srv", "sd_srvWait", "sd_close", "sd_wait", "sd_proc",
                      "shutdownReturned", "done"}

\* The sources the loop's select waits on: the poll goroutine, the Err() channel,
\* the context passed to Run.
Sources == {"poll", "err", "ctx"}

\* Source s fires (a poll returns an error or a Shutdown event, an error is put
\* on the Err() channel, Run's context is cancelled): it is recorded when it is
\* the first to fire and the loop has not returned yet.  The record is kept up
\* to the step in which the loop returns.
Fire(s) == IF firstFired = "none" /\ ~LoopExited THEN s ELSE firstFired

\* INVOKE events the platform has delivered so far.
InvokesDelivered == Cardinality({i \in 1..Len(polls) : polls[i].ev.type = "INVOKE"})

\* The event types of the register request the Client has sent.
RegisteredEventTypes == IF requests = <<>> THEN {} ELSE requests[1].events

\* Events the platform may answer a poll with: only registered event types.
Deliverable ==
    {e \in ShutdownEvents \cup (IF InvokesDelivered < MaxInvokes THEN InvokeEvents ELSE {}) :
        e.type \in RegisteredEventTypes}

\* ------------------------------------------------------------------ pushed requests
\* A pushed request: its method, the tokens the decoder has read from its body
\* so far, and whether the body has been read to its end and closed.
NewRequest(m) == [method |-> m, body |-> <<>>, drained |-> FALSE, closed |-> FALSE]

\* The decoder reads one more token of the body.
Read(req, tok) == [req EXCEPT !.body = Append(@, tok)]

\* Mutant: Decode returns without touching what is left of the body.
DecodeExitLeavesBody(req) == req

\* The deferred function of Decode: io.Copy(io.Discard, r), then r.Close().
DecodeExit(req) == [req EXCEPT !.drained = TRUE, !.closed = TRUE]

\* ------------------------------------------------------------------ the protocol client: calls
\* Identifiers the platform may issue in the register response; "" stands for a
\* response without the identifier header (Header.Get returns "").
IssuedIds == {"", "id-a"}

\* The calls a Client offers besides Register.
ClientOps == {"event/next", "init/error", "exit/error", "subscribe"}

\* The event types an extension can register for, as WithEventTypes takes them.
EventTypeSets == SUBSET {"INVOKE", "SHUTDOWN"}

\* The client options a caller of Run passes: WithEventTypes options, in order.
UserClientOptions == UNION {[1..n -> EventTypeSets] : n \in 0..MaxOptions}

\* for _, o := range opts { o.apply(&options) }: eventTypesOption.apply
\* overwrites options.eventTypes, so the last option wins.
RECURSIVE ApplyOptions(_, _)
ApplyOptions(eventTypes, opts) ==
    IF opts = <<>> THEN eventTypes ELSE ApplyOptions(Head(opts), Tail(opts))

\* Register: the event types of the register request, from the default
\* {Invoke, Shutdown} and the options.
RegisterEventTypes(opts) == ApplyOptions({"INVOKE", "SHUTDOWN"}, opts)

\* Mutant: the receiver's own event-type option is put before the user's.
ReceiverClientOptionsFirst(userOpts) == <<{"SHUTDOWN"}>> \o userOpts

\* logsapi.Run / telemetryapi.Run: WithEventTypes({Shutdown}) is appended to
\* the client options of the user before extapi.Run is called.
ReceiverClientOptions(userOpts) == Append(userOpts, {"SHUTDOWN"})

\* The client options Register is called with.
ClientOptions(userOpts) ==
    IF kind = "receiver" THEN ReceiverClientOptions(userOpts) ELSE userOpts

\* Response bodies: a JSON document (errorType and errorMessage are "" when the
\* document has no such members, as in a result document) or bytes that are
\* not JSON.
ResultBody == [json |-> TRUE, errorType |-> "", errorMessage |-> ""]
ErrorBodies == {[json |-> TRUE, errorType |-> "ValidationError", errorMessage |-> "invalid request"],
                [json |-> TRUE, errorType |-> "Forbidden", errorMessage |-> "access denied"]}
GarbageBody == [json |-> FALSE, errorType |-> "", errorMessage |-> ""]

\* httpClient.Do returned an error: there is no response.
NoResponse == [status |-> 0, body |-> GarbageBody, id |-> ""]

\* The responses of the platform: 200 and 202 carry a result document, 403 a
\* structured error; any of them may carry bytes that are not JSON instead.
Responses(ids) ==
    {NoResponse} \cup
    {[status |-> st, body |-> b, id |-> i] :
        st \in {200, 202}, b \in {ResultBody, GarbageBody}, i \in ids} \cup
    {[status |-> st, body |-> b, id |-> i] :
        st \in {403}, b \in ErrorBodies \cup {GarbageBody}, i \in ids}

\* The errors of doRequest: nil, a LambdaAPIError value, or an error that
\* carries only a text.
NoError == [kind |-> "nil", status |-> 0, type |-> "", message |-> ""]
OpaqueError(text) == [kind |-> "opaque", status |-> 0, type |-> "", message |-> text]
LambdaAPIError(status, type, message) ==
    [kind |-> "api", status |-> status, type |-> type, message |-> message]

\* The error as a chain of messages (LambdaAPIError.Error for the typed error).
ErrChain(e) == IF e.kind = "api" THEN <<"Lambda API error">> ELSE <<e.message>>

\* Mutant: the HTTP status of the response is not stored in the typed error.
DoRequestNoStatus(wantStatus, resp, hasOut) ==
    IF resp = NoResponse THEN OpaqueError("http request failed")
    ELSE IF resp.status # wantStatus
         THEN IF resp.body.json
                 THEN LambdaAPIError(0, resp.body.errorType, resp.body.errorMessage)
                 ELSE OpaqueError("http request failed with status and body")
    ELSE IF hasOut /\ ~resp.body.json THEN OpaqueError("could not json decode http response")
    ELSE NoError

\* doRequest: the error it returns.  A response with another status than the
\* wanted one is decoded into a LambdaAPIError that carries the status; when the
\* body cannot be decoded the error carries only a text.  With the wanted status
\* the body is decoded into out, when there is one.
DoRequest(wantStatus, resp, hasOut) ==
    IF resp = NoResponse THEN OpaqueError("http request failed")
    ELSE IF resp.status # wantStatus
         THEN IF resp.body.json
                 THEN LambdaAPIError(resp.status, resp.body.errorType, resp.body.errorMessage)
                 ELSE OpaqueError("http request failed with status and body")
    ELSE IF hasOut /\ ~resp.body.json THEN OpaqueError("could not json decode http response")
    ELSE NoError

\* The status each call wants: reportError wants 202 Accepted, the others 200.
WantStatus(op) == IF op \in {"init/error", "exit/error"} THEN 202 ELSE 200

\* The subscribe calls pass no out to doRequest.
HasOut(op) == op # "subscribe"

\* The text each call wraps the error of doRequest with.
CallFailed(op) ==
    CASE op = "event/next" -> "event/next call failed"
      [] op = "subscribe" -> "telemetry subscribe http call failed"
      [] OTHER -> "error reporting call failed"

\* No call has been made yet.
NoCall == [op |-> "none", resp |-> NoResponse, err |-> NoError, out |-> FALSE, ret |-> Nil]

\* errors.Is(err, target) on the error a call returned, for a LambdaAPIError
\* target: every call wraps the error of doRequest with %w, and LambdaAPIError
\* values are compared field by field.
ErrorsIs(call, target) == call.ret # Nil /\ call.err = target

\* Mutant: doRequest does not attach the identifier.
IdHeaderMissing(extensionID) == ""

\* doRequest: the identifier header of the request ("": no such header); it is
\* set only when the client holds an identifier.
IdHeader(extensionID) == IF extensionID # "" THEN extensionID ELSE ""

\* Mutant: an empty identifier is accepted.
RegisterReturnAnyId(env, e, id) ==
    IF ~env THEN EnvErr
    ELSE IF e # NoError
         THEN Wrap(RegisterErr[1], Wrap("register http call failed", ErrChain(e)))
    ELSE Nil

\* The error Register returns: env tells whether AWS_LAMBDA_RUNTIME_API is set,
\* e is the error of doRequest, id the identifier read from the response.
RegisterReturn(env, e, id) ==
    IF ~env THEN EnvErr
    ELSE IF e # NoError
         THEN Wrap(RegisterErr[1], Wrap("register http call failed", ErrChain(e)))
    ELSE IF id = "" THEN Wrap(RegisterErr[1], NoIdErr)
    ELSE Nil

\* Register called with the client options opts.  Without the
\* AWS_LAMBDA_RUNTIME_API variable it fails before any request.  Otherwise a
\* Client is built with no identifier and sends the register request through
\* doRequest; when the call fails Register returns the error and no Client;
\* otherwise the identifier is read from the response header and Register fails
\* if it is empty.
Register(opts) ==
    \E env \in BOOLEAN, resp \in Responses(IssuedIds) :
       LET e == DoRequest(200, resp, TRUE)
           id == IF e = NoError THEN resp.id ELSE clientID
           ret == RegisterReturn(env, e, id)
       IN /\ requests' = (IF env
                             THEN Append(requests, [op |-> "register",
                                                    id |-> IdHeader(clientID),
                                                    events |-> RegisterEventTypes(opts)])
                             ELSE requests)
          /\ clientID' = (IF env THEN id ELSE clientID)
          /\ clientState' = (IF ret = Nil THEN "registered" ELSE "failed")
          /\ lastCall' = [op |-> "register",
                          resp |-> (IF env THEN resp ELSE NoResponse),
                          err |-> (IF env THEN e ELSE NoError),
                          out |-> (ret = Nil),
                          ret |-> ret]

\* ------------------------------------------------------------------ Init
InitRun ==
    /\ kind \in Kinds
    /\ pc = "register"
    /\ parentCancelled = FALSE
    /\ parentDeadline \in (IF kind = "generic" THEN ParentDeadlines ELSE {0})
    /\ initCalls = 0
    /\ initErr = Nil
    /\ polls = <<>>
    /\ shutdownEvent = NoEvent
    /\ loopErr = Nil
    /\ handled = <<>>
    /\ shutdownCalls = <<>>
    /\ extShutdownErr = Nil
    /\ reports = <<>>
    /\ runResult = Nil
    /\ errCh = <<>>
    /\ signalled = FALSE
    /\ firstFired = "none"
    /\ worker = [w \in WorkerIds |-> "none"]
    /\ hpc = [h \in Handlers |-> "idle"]
    /\ hidx = [h \in Handlers |-> 0]
    /\ hreq = [h \in Handlers |-> NewRequest("")]
    /\ panics = {}
    /\ hresp = [h \in Handlers |-> 0]
    /\ eventsCh = "open"
    /\ closes = 0
    /\ processingDone = FALSE
    /\ decodeCancelled = FALSE
    /\ srv = "new"
    /\ srvErr = Nil
    /\ passed = <<>>
    /\ procFailed = 0
    /\ procCalls = [init |-> 0, shutdown |-> 0, subscribe |-> 0, shutdownErr |-> Nil]
    /\ overlap = FALSE
    /\ clientID = ""
    /\ clientState = "none"
    /\ requests = <<>>
    /\ lastCall = NoCall

\* No subscription request.
NoSub == [step |-> "none"]
NoProcessor == [step |-> "none"]

\* Initially no subscription request has been built and no OpenTelemetry
\* processor exists.
Init == InitRun /\ sub = NoSub /\ otelProc = NoProcessor

\* ------------------------------------------------------------------ subscription requests
\* A Go string is the sequence of its characters.  BadByte stands for a byte
\* that is not valid UTF-8, Replacement for the rune U+FFFD.
BadByte == "\\xff"
Replacement == "U+FFFD"

\* Pointers and omitted JSON members: <<>> is nil (absent), <<v>> points to v.
NilPtr == <<>>
Ptr(v) == <<v>>

\* A slice: nil, or its elements.
NilSlice == [nil |-> TRUE, elems |-> <<>>]
Slice(elems) == [nil |-> FALSE, elems |-> elems]

\* LogSubscriptionType / TelemetrySubscriptionType: the declared constants, and
\* one more string, as the type is an open string type.
Platform == <<"platform">>
Function == <<"function">>
ExtensionType == <<"extension">>
SubscriptionTypes == {Platform, Function, ExtensionType, <<BadByte>>}

\* The arguments of NewLogsSubscribeRequest / NewTelemetrySubscribeRequest.
Apis == {"logs", "telemetry"}
Urls == {<<"http://sandbox:8080">>, <<"http://sandbox:8080", "<">>,
         <<"http://sandbox:8080", Replacement>>, <<"http://sandbox:8080", BadByte>>}
TypeLists == {NilSlice} \cup
             {Slice(l) : l \in UNION {[1..n -> SubscriptionTypes] : n \in 0..MaxTypes}}
BufferingCfgs == {NilPtr,
                  Ptr([maxItems |-> 0, maxBytes |-> 0, timeoutMs |-> 0]),
                  Ptr([maxItems |-> 1000, maxBytes |-> 262144, timeoutMs |-> 100])}

\* LogsSchemaVersion20210318, TelemetrySchemaVersion20220701.
SchemaVersion(api) == IF api = "logs" THEN <<"2021-03-18">> ELSE <<"2022-07-01">>

\* NewLogsSubscribeRequest / NewTelemetrySubscribeRequest: an empty type list
\* is replaced by platform and function; LogsDestination has the two further
\* members method and encoding, left empty.
NewSubscribeRequest(api, url, types, bufferingCfg) ==
    [schemaVersion |-> SchemaVersion(api),
     types |-> (IF Len(types.elems) = 0 THEN Slice(<<Platform, Function>>) ELSE types),
     buffering |-> bufferingCfg,
     destination |-> Ptr(IF api = "logs"
                            THEN [protocol |-> <<"HTTP">>, URI |-> url,
                                  method |-> <<>>, encoding |-> <<>>]
                            ELSE [protocol |-> <<"HTTP">>, URI |-> url])]

\* json.Marshal of a string: bytes that are not valid UTF-8 become the
\* replacement rune, and <, > and & are written as \u escapes.
EncodeString(str) ==
    [i \in DOMAIN str |-> IF str[i] = BadByte THEN "\\ufffd"
                          ELSE IF str[i] = "<" THEN "\\u003c"
                          ELSE str[i]]

\* Mutant: \u escapes are left as they are.
DecodeStringNoEscapes(js) == js

\* json.Unmarshal of a string: \u escapes become the runes they denote.
DecodeString(js) ==
    [i \in DOMAIN js |-> IF js[i] = "\\ufffd" THEN Replacement
                         ELSE IF js[i] = "\\u003c" THEN "<"
                         ELSE js[i]]

\* json.Marshal of a uint32: its decimal digits.
RECURSIVE EncodeNumber(_)
EncodeNumber(n) == IF n < 10 THEN <<n>> ELSE Append(EncodeNumber(n \div 10), n % 10)

\* json.Unmarshal of a number into a uint32.
RECURSIVE DecodeNumber(_)
DecodeNumber(ds) ==
    IF ds = <<>> THEN 0
    ELSE DecodeNumber(SubSeq(ds, 1, Len(ds) - 1)) * 10 + ds[Len(ds)]

\* json.Marshal of a destination: protocol and URI always, method and encoding
\* (omitempty) only when not empty.
MarshalDestination(api, d) ==
    IF api = "logs"
       THEN [protocol |-> EncodeString(d.protocol), URI |-> EncodeString(d.URI),
             method |-> (IF d.method = <<>> THEN NilPtr ELSE Ptr(EncodeString(d.method))),
             encoding |-> (IF d.encoding = <<>> THEN NilPtr ELSE Ptr(EncodeString(d.encoding)))]
       ELSE [protocol |-> EncodeString(d.protocol), URI |-> EncodeString(d.URI)]

\* json.Marshal of a subscribe request, as the members of the JSON object:
\* schemaVersion (omitempty) is left out when empty and buffering (omitempty)
\* when nil; a nil slice is written as null; a nil destination as null.
Marshal(api, req) ==
    [schemaVersion |-> (IF req.schemaVersion = <<>> THEN NilPtr
                        ELSE Ptr(EncodeString(req.schemaVersion))),
     types |-> (IF req.types.nil THEN [null |-> TRUE, array |-> <<>>]
                ELSE [null |-> FALSE,
                      array |-> [i \in DOMAIN req.types.elems |->
                                    EncodeString(req.types.elems[i])]]),
     buffering |-> (IF req.buffering = NilPtr THEN NilPtr
                    ELSE Ptr([maxItems |-> EncodeNumber(req.buffering[1].maxItems),
                              maxBytes |-> EncodeNumber(req.buffering[1].maxBytes),
                              timeoutMs |-> EncodeNumber(req.buffering[1].timeoutMs)])),
     destination |-> (IF req.destination = NilPtr THEN NilPtr
                      ELSE Ptr(MarshalDestination(api, req.destination[1])))]

\* json.Unmarshal of a destination object.
UnmarshalDestination(api, o) ==
    IF api = "logs"
       THEN [protocol |-> DecodeString(o.protocol), URI |-> DecodeString(o.URI),
             method |-> (IF o.method = NilPtr THEN <<>> ELSE DecodeString(o.method[1])),
             encoding |-> (IF o.encoding = NilPtr THEN <<>> ELSE DecodeString(o.encoding[1]))]
       ELSE [protocol |-> DecodeString(o.protocol), URI |-> DecodeString(o.URI)]

\* json.Unmarshal into a zero request: a member that is absent or null leaves
\* the zero value ("" or nil); an array becomes a slice that is not nil.
Unmarshal(api, o) ==
    [schemaVersion |-> (IF o.schemaVersion = NilPtr THEN <<>>
                        ELSE DecodeString(o.schemaVersion[1])),
     types |-> (IF o.types.null THEN NilSlice
                ELSE Slice([i \in DOMAIN o.types.array |-> DecodeString(o.types.array[i])])),
     buffering |-> (IF o.buffering = NilPtr THEN NilPtr
                    ELSE Ptr([maxItems |-> DecodeNumber(o.buffering[1].maxItems),
                              maxBytes |-> DecodeNumber(o.buffering[1].maxBytes),
                              timeoutMs |-> DecodeNumber(o.buffering[1].timeoutMs)])),
     destination |-> (IF o.destination = NilPtr THEN NilPtr
                      ELSE Ptr(UnmarshalDestination(api, o.destination[1])))]

\* The request is built from the arguments.
SubNew ==
    /\ sub.step = "args"
    /\ sub' = [step |-> "built", api |-> sub.api,
               req |-> NewSubscribeRequest(sub.api, sub.url, sub.types, sub.buffering)]
    /\ UNCHANGED <<runVars, handlerVars, recvVars, clientVars, otelProc>>

\* The request is encoded, as LogsSubscribe / TelemetrySubscribe do.
SubMarshal ==
    /\ sub.step = "built"
    /\ sub' = [step |-> "encoded", api |-> sub.api, req |-> sub.req,
               body |-> Marshal(sub.api, sub.req)]
    /\ UNCHANGED <<runVars, handlerVars, recvVars, clientVars, otelProc>>

\* The body is decoded back into a request, as the receiving side does.
SubUnmarshal ==
    /\ sub.step = "encoded"
    /\ sub' = [step |-> "decoded", api |-> sub.api, req |-> sub.req, body |-> sub.body,
               back |-> Unmarshal(sub.api, sub.body)]
    /\ UNCHANGED <<runVars, handlerVars, recvVars, clientVars, otelProc>>

\* A subscription request on its own: the arguments are drawn, then the request
\* is built, encoded and decoded.
CodecInit ==
    /\ InitRun /\ kind = "generic" /\ parentDeadline = 0
    /\ sub \in {[step |-> "args", api |-> a, url |-> u, types |-> t, buffering |-> b] :
                  a \in Apis, u \in Urls, t \in TypeLists, b \in BufferingCfgs}
    /\ otelProc = NoProcessor

CodecNext == SubNew \/ SubMarshal \/ SubUnmarshal

CodecSpec == CodecInit /\ [][CodecNext]_vars

\* ------------------------------------------------------------------ OpenTelemetry processor
\* The event types Process has a case for (decodeNext gives an event of each of
\* these types the record of that type), and one it has no case for
\* (TypeFunction).
TelemetryTypes ==
    {"platform.initStart", "platform.initRuntimeDone", "platform.initReport",
     "platform.start", "platform.runtimeDone", "platform.report", "function"}

PhaseInit == "init"
PhaseInvoke == "invoke"

\* An event is its type and its place in the order of arrival; the zero Event
\* has no type.
ZeroEvent == [Type |-> "", n |-> 0]

\* A span context is identified by a number; 0 is the empty one (no span id).
ZeroSpanContext == 0

\* EventTriplet{PrevSC: sc}.
EventTriplet(sc) ==
    [Type |-> "", Start |-> ZeroEvent, RuntimeDone |-> ZeroEvent, Report |-> ZeroEvent,
     PrevSC |-> sc]

OutOfOrderErr == <<"received triplet is not consistent: events were received out of order">>
ExportErr == <<"export failed">>

\* EventTriplet.IsValid: the phase is init or invoke and the three events are of
\* the types of that phase.
IsValid(t) ==
    CASE t.Type = PhaseInit ->
            /\ t.Start.Type = "platform.initStart"
            /\ t.RuntimeDone.Type = "platform.initRuntimeDone"
            /\ t.Report.Type = "platform.initReport"
      [] t.Type = PhaseInvoke ->
            /\ t.Start.Type = "platform.start"
            /\ t.RuntimeDone.Type = "platform.runtimeDone"
            /\ t.Report.Type = "platform.report"
      [] OTHER -> FALSE

\* SpanConverter.ConvertIntoSpans: an error for a triplet that is not valid,
\* otherwise the spans of the triplet and the context of the new span (here the
\* arrival number of the Report event).
ConvertIntoSpans(t) ==
    IF ~IsValid(t)
       THEN [spans |-> <<>>, sc |-> ZeroSpanContext, err |-> OutOfOrderErr]
       ELSE [spans |-> <<t>>, sc |-> t.Report.n, err |-> Nil]

\* Processor.exportTriplet: the spans are passed to the exporter only when the
\* conversion succeeded; exporterErr is what ExportSpans returns.
ExportTriplet(t, exporterErr) ==
    LET c == ConvertIntoSpans(t)
    IN  IF c.err # Nil
           THEN [sc |-> c.sc, err |-> c.err, exported |-> <<>>]
           ELSE [sc |-> c.sc, err |-> exporterErr, exported |-> c.spans]

\* The cases of the switch in Process.
StartTypes == {"platform.initStart", "platform.start"}
RuntimeDoneTypes == {"platform.initRuntimeDone", "platform.runtimeDone"}
ReportTypes == {"platform.initReport", "platform.report"}

\* The phase a Start event sets.
PhaseOf(type) == IF type = "platform.initStart" THEN PhaseInit ELSE PhaseInvoke

\* No Process call has been made.
NoProcessCall == [event |-> ZeroEvent, err |-> Nil, exported |-> <<>>]

\* NewProcessor followed by Processor.Init: the triplet is the zero EventTriplet.
ProcessorInit ==
    /\ otelProc.step = "new"
    /\ otelProc' = [step |-> "ready", curTriplet |-> EventTriplet(ZeroSpanContext),
                    received |-> <<>>, exports |-> <<>>, last |-> NoProcessCall]
    /\ UNCHANGED <<runVars, handlerVars, recvVars, clientVars, sub>>

\* Processor.Process(ctx, event): a Start event sets the phase and the Start
\* slot, a RuntimeDone event the RuntimeDone slot; a Report event sets the
\* Report slot and exports the triplet: on success the triplet is replaced by
\* an empty one that keeps the span context, on an error the error is returned
\* and the triplet stays as it is.  Other events are ignored.
ProcessorProcess ==
    /\ otelProc.step = "ready"
    /\ Len(otelProc.received) < MaxTelemetryEvents
    /\ \E type \in TelemetryTypes, exporterErr \in {Nil, ExportErr} :
          LET event == [Type |-> type, n |-> Len(otelProc.received) + 1]
              cur == otelProc.curTriplet
              withReport == [cur EXCEPT !.Report = event]
              r == ExportTriplet(withReport, exporterErr)
          IN  otelProc' =
                [otelProc EXCEPT
                   !.received = Append(@, event),
                   !.curTriplet =
                       IF type \in StartTypes
                          THEN [cur EXCEPT !.Type = PhaseOf(type), !.Start = event]
                       ELSE IF type \in RuntimeDoneTypes
                          THEN [cur EXCEPT !.RuntimeDone = event]
                       ELSE IF type \in ReportTypes
                          THEN (IF r.err # Nil THEN withReport ELSE EventTriplet(r.sc))
                       ELSE cur,
                   !.exports = IF type \in ReportTypes THEN @ \o r.exported ELSE @,
                   !.last = [event |-> event,
                             err |-> IF type \in ReportTypes THEN r.err ELSE Nil,
                             exported |-> IF type \in ReportTypes THEN r.exported ELSE <<>>]]
    /\ UNCHANGED <<runVars, handlerVars, recvVars, clientVars, sub>>

\* One OpenTelemetry processor on its own, given events of any types in any order.
OtelInit ==
    /\ InitRun /\ kind = "generic" /\ parentDeadline = 0
    /\ sub = NoSub
    /\ otelProc = [step |-> "new"]

OtelNext == ProcessorInit \/ ProcessorProcess

OtelSpec == OtelInit /\ [][OtelNext]_vars

\* ------------------------------------------------------------------ Run
\* Mutant: Run goes on to Extension.Init after a failed registration.
RunRegisterContinues ==
    /\ pc = "register"
    /\ \E userOpts \in UserClientOptions : Register(ClientOptions(userOpts))
    /\ IF lastCall'.ret = Nil
          THEN pc' = "init" /\ UNCHANGED runResult
          ELSE pc' = "init" /\ runResult' = lastCall'.ret
    /\ UNCHANGED <<codecVars, kind, parentCancelled, parentDeadline, initCalls, initErr, polls,
                   shutdownEvent, loopErr, handled, shutdownCalls, extShutdownErr,
                   reports, errCh, signalled, handlerVars, recvVars>>
    /\ firstFired' = (IF LoopExited' THEN "none" ELSE firstFired)

\* Run: Register with the client options; a registration error is returned at
\* once.
RunRegister ==
    /\ pc = "register"
    /\ \E userOpts \in UserClientOptions : Register(ClientOptions(userOpts))
    /\ IF lastCall'.ret = Nil
          THEN pc' = "init" /\ UNCHANGED runResult
          ELSE pc' = "done" /\ runResult' = lastCall'.ret
    /\ UNCHANGED <<codecVars, kind, parentCancelled, parentDeadline, initCalls, initErr, polls,
                   shutdownEvent, loopErr, handled, shutdownCalls, extShutdownErr,
                   reports, errCh, signalled, handlerVars, recvVars>>
    /\ firstFired' = (IF LoopExited' THEN "none" ELSE firstFired)

\* Extension.Init of a generic extension.
GenericInit ==
    /\ kind = "generic"
    /\ pc = "init"
    /\ initCalls' = initCalls + 1
    /\ \E e \in {Nil, UserInitErr} : initErr' = e
    /\ pc' = "initReturned"
    /\ UNCHANGED <<codecVars, clientVars, firstFired, kind, parentCancelled, parentDeadline, polls, shutdownEvent, loopErr,
                   handled, shutdownCalls, extShutdownErr, reports, runResult, errCh,
                   signalled, handlerVars, recvVars>>

\* Mutant: Run returns right after reporting the init error, without calling
\* Extension.Shutdown.
RunInitReturnedNoShutdown ==
    /\ pc = "initReturned"
    /\ IF initErr # Nil
          THEN /\ \E ok \in BOOLEAN :
                     reports' = Append(reports, [kind |-> "init", err |-> initErr, ok |-> ok])
               /\ runResult' = Wrap("Extension.Init failed", initErr)
               /\ pc' = "done"
          ELSE /\ pc' = "loop"
               /\ UNCHANGED <<reports, runResult>>
    /\ UNCHANGED <<codecVars, clientVars, kind, parentCancelled, parentDeadline, initCalls, initErr, polls,
                   shutdownEvent, loopErr, handled, shutdownCalls, extShutdownErr,
                   errCh, signalled, handlerVars, recvVars>>
    /\ firstFired' = (IF LoopExited' THEN "none" ELSE firstFired)

\* Mutant: the error of Extension.Init is only reported; the loop starts anyway.
RunInitReturnedStartsLoop ==
    /\ pc = "initReturned"
    /\ IF initErr # Nil
          THEN \E ok \in BOOLEAN :
                  reports' = Append(reports, [kind |-> "init", err |-> initErr, ok |-> ok])
          ELSE UNCHANGED reports
    /\ pc' = "loop"
    /\ UNCHANGED <<codecVars, clientVars, kind, parentCancelled, parentDeadline, initCalls, initErr, polls,
                   shutdownEvent, loopErr, handled, shutdownCalls, extShutdownErr,
                   runResult, errCh, signalled, handlerVars, recvVars>>
    /\ firstFired' = (IF LoopExited' THEN "none" ELSE firstFired)

\* Run after ext.Init returned: on an error, client.InitError is called (its own
\* failure is only logged) and Extension.Shutdown comes next; otherwise the loop starts.
RunInitReturned ==
    /\ pc = "initReturned"
    /\ IF initErr # Nil
          THEN /\ \E ok \in BOOLEAN :
                     reports' = Append(reports, [kind |-> "init", err |-> initErr, ok |-> ok])
               /\ pc' = "shutdown"
          ELSE /\ pc' = "loop"
               /\ UNCHANGED reports
    /\ UNCHANGED <<codecVars, clientVars, kind, parentCancelled, parentDeadline, initCalls, initErr, polls,
                   shutdownEvent, loopErr, handled, shutdownCalls, extShutdownErr,
                   runResult, errCh, signalled, handlerVars, recvVars>>
    /\ firstFired' = (IF LoopExited' THEN "none" ELSE firstFired)

\* Mutant: the loop starts a further poll while it still waits in its select.
LoopStartPollEager ==
    /\ pc \in {"loop", "select"}
    /\ Len(polls) <= MaxInvokes
    /\ polls' = Append(polls, [st |-> "calling", ev |-> NoEvent, err |-> Nil])
    /\ pc' = "select"
    /\ UNCHANGED <<codecVars, clientVars, firstFired, kind, parentCancelled, parentDeadline, initCalls, initErr,
                   shutdownEvent, loopErr, handled, shutdownCalls, extShutdownErr,
                   reports, runResult, errCh, signalled, handlerVars, recvVars>>

\* loop: one iteration starts one goroutine calling Client.NextEvent.
LoopStartPoll ==
    /\ pc = "loop"
    /\ polls' = Append(polls, [st |-> "calling", ev |-> NoEvent, err |-> Nil])
    /\ pc' = "select"
    /\ UNCHANGED <<codecVars, clientVars, firstFired, kind, parentCancelled, parentDeadline, initCalls, initErr,
                   shutdownEvent, loopErr, handled, shutdownCalls, extShutdownErr,
                   reports, runResult, errCh, signalled, handlerVars, recvVars>>

\* The platform answers an outstanding poll with an event; the goroutine then
\* blocks sending it on nextEventCh.
PollEvent(i) ==
    /\ polls[i].st = "calling"
    /\ ~LoopCtxDone
    /\ \E ev \in Deliverable :
          /\ polls' = [polls EXCEPT ![i] = [st |-> "event", ev |-> ev, err |-> Nil]]
          /\ firstFired' = (IF ev.type = "SHUTDOWN" THEN Fire("poll") ELSE firstFired)
    /\ UNCHANGED <<codecVars, clientVars, kind, pc, parentCancelled, parentDeadline, initCalls, initErr,
                   shutdownEvent, loopErr, handled, shutdownCalls, extShutdownErr,
                   reports, runResult, errCh, signalled, handlerVars, recvVars>>

\* Client.NextEvent fails (transport, status or decode error).  The goroutine then
\* blocks sending the error on nextEventErrCh.
PollError(i) ==
    /\ polls[i].st = "calling"
    /\ ~LoopCtxDone
    /\ polls' = [polls EXCEPT ![i] = [st |-> "err", ev |-> NoEvent, err |-> NextEventErr]]
    /\ firstFired' = Fire("poll")
    /\ UNCHANGED <<codecVars, clientVars, kind, pc, parentCancelled, parentDeadline, initCalls, initErr,
                   shutdownEvent, loopErr, handled, shutdownCalls, extShutdownErr,
                   reports, runResult, errCh, signalled, handlerVars, recvVars>>

\* Client.NextEvent's context is done (Run's context, or loop returned and its
\* deferred cancel ran): the round trip is aborted and NextEvent returns the
\* context's error, which the goroutine then sends on nextEventErrCh.
PollCancelled(i) ==
    /\ polls[i].st = "calling"
    /\ LoopCtxDone
    /\ polls' = [polls EXCEPT ![i] = [st |-> "err", ev |-> NoEvent,
                                      err |-> Wrap("event/next call failed", CtxErr)]]
    /\ firstFired' = Fire("poll")
    /\ UNCHANGED <<codecVars, clientVars, kind, pc, parentCancelled, parentDeadline, initCalls, initErr,
                   shutdownEvent, loopErr, handled, shutdownCalls, extShutdownErr,
                   reports, runResult, errCh, signalled, handlerVars, recvVars>>

\* select case event := <-nextEventCh.
LoopRecvEvent ==
    /\ pc = "select"
    /\ \E i \in 1..Len(polls) :
          /\ polls[i].st = "event"
          /\ polls' = [polls EXCEPT ![i].st = "exited"]
          /\ IF polls[i].ev.type = "SHUTDOWN"
                THEN /\ shutdownEvent' = polls[i].ev
                     /\ pc' = "shutdown"
                     /\ UNCHANGED handled
                ELSE /\ handled' = Append(handled,
                            [ev |-> polls[i].ev,
                             deadline |-> WithDeadline(parentDeadline, polls[i].ev.deadlineMs)])
                     /\ pc' = "handle"
                     /\ UNCHANGED shutdownEvent
    /\ UNCHANGED <<codecVars, clientVars, kind, parentCancelled, parentDeadline, initCalls, initErr, loopErr,
                   shutdownCalls, extShutdownErr, reports, runResult, errCh, signalled,
                   handlerVars, recvVars>>
    /\ firstFired' = (IF LoopExited' THEN "none" ELSE firstFired)

\* Mutant: the loop goes on after HandleInvokeEvent returned an error.
GenericHandleReturnContinues ==
    /\ kind = "generic"
    /\ pc = "handle"
    /\ \E e \in {Nil, UserHandleErr} :
          IF e = Nil
             THEN pc' = "loop" /\ UNCHANGED loopErr
             ELSE /\ loopErr' = Wrap("Extension.HandleInvokeEvent failed", e)
                  /\ pc' = "loop"
    /\ UNCHANGED <<codecVars, clientVars, kind, parentCancelled, parentDeadline, initCalls, initErr, polls,
                   shutdownEvent, handled, shutdownCalls, extShutdownErr, reports,
                   runResult, errCh, signalled, handlerVars, recvVars>>
    /\ firstFired' = (IF LoopExited' THEN "none" ELSE firstFired)

\* HandleInvokeEvent of a generic extension returns.
GenericHandleReturn ==
    /\ kind = "generic"
    /\ pc = "handle"
    /\ \E e \in {Nil, UserHandleErr} :
          IF e = Nil
             THEN pc' = "loop" /\ UNCHANGED loopErr
             ELSE /\ loopErr' = Wrap("Extension.HandleInvokeEvent failed", e)
                  /\ pc' = "shutdown"
    /\ UNCHANGED <<codecVars, clientVars, kind, parentCancelled, parentDeadline, initCalls, initErr, polls,
                   shutdownEvent, handled, shutdownCalls, extShutdownErr, reports,
                   runResult, errCh, signalled, handlerVars, recvVars>>
    /\ firstFired' = (IF LoopExited' THEN "none" ELSE firstFired)

\* select case err := <-nextEventErrCh.
LoopRecvPollErr ==
    /\ pc = "select"
    /\ \E i \in 1..Len(polls) :
          /\ polls[i].st = "err"
          /\ polls' = [polls EXCEPT ![i].st = "exited"]
          /\ loopErr' = Wrap("Client.NextEvent failed", polls[i].err)
    /\ pc' = "shutdown"
    /\ UNCHANGED <<codecVars, clientVars, kind, parentCancelled, parentDeadline, initCalls, initErr,
                   shutdownEvent, handled, shutdownCalls, extShutdownErr, reports,
                   runResult, errCh, signalled, handlerVars, recvVars>>
    /\ firstFired' = (IF LoopExited' THEN "none" ELSE firstFired)

\* Mutant: the Err() channel is read once more after the loop has returned, and
\* what it holds takes the place of the loop's result.
LoopRecvErrChAfterReturn ==
    /\ pc \in {"select", "shutdown"}
    /\ errCh # <<>>
    /\ loopErr' = Wrap("Extension.Err() signaled an error", errCh[1])
    /\ errCh' = <<>>
    /\ pc' = "shutdown"
    /\ UNCHANGED <<codecVars, clientVars, kind, parentCancelled, parentDeadline, initCalls, initErr, polls,
                   shutdownEvent, handled, shutdownCalls, extShutdownErr, reports,
                   runResult, signalled, handlerVars, recvVars>>
    /\ firstFired' = (IF LoopExited' THEN "none" ELSE firstFired)

\* Mutant: the select has no case for the Err() channel.
LoopRecvErrChNotSelected ==
    /\ FALSE
    /\ UNCHANGED vars

\* select case err := <-ext.Err().
LoopRecvErrCh ==
    /\ pc = "select"
    /\ errCh # <<>>
    /\ loopErr' = Wrap("Extension.Err() signaled an error", errCh[1])
    /\ errCh' = <<>>
    /\ pc' = "shutdown"
    /\ UNCHANGED <<codecVars, clientVars, kind, parentCancelled, parentDeadline, initCalls, initErr, polls,
                   shutdownEvent, handled, shutdownCalls, extShutdownErr, reports,
                   runResult, signalled, handlerVars, recvVars>>
    /\ firstFired' = (IF LoopExited' THEN "none" ELSE firstFired)

\* select case <-ctx.Done().
LoopRecvCtxDone ==
    /\ pc = "select"
    /\ parentCancelled
    /\ loopErr' = Wrap("context cancelled before calling Client.NextEvent", CtxErr)
    /\ pc' = "shutdown"
    /\ UNCHANGED <<codecVars, clientVars, kind, parentCancelled, parentDeadline, initCalls, initErr, polls,
                   shutdownEvent, handled, shutdownCalls, extShutdownErr, reports,
                   runResult, errCh, signalled, handlerVars, recvVars>>
    /\ firstFired' = (IF LoopExited' THEN "none" ELSE firstFired)

\* Mutant: the reason of the Shutdown event is not used.
ShutdownReasonIgnored(event) == ExtensionError

\* shutdown: the reason passed to Extension.Shutdown.
ShutdownReason(event) == IF event # NoEvent THEN event.reason ELSE ExtensionError

\* shutdown: the deadline of the context passed to Extension.Shutdown.
ShutdownDeadline(event) ==
    IF event # NoEvent THEN WithDeadline(parentDeadline, event.deadlineMs) ELSE parentDeadline

\* Mutant: the loop error is dropped.
RunLoopErrDropped(e) == Nil

\* Run: loopErr = fmt.Errorf("extension loop failed: %w", loopErr) when not nil.
RunLoopErr(e) == IF e # Nil THEN Wrap("extension loop failed", e) ELSE Nil

\* The arguments of the one Extension.Shutdown call: Run's init-failure path
\* passes ExtensionError and the Init error, shutdown() the event's reason and
\* the loop error.
ShutdownArgs ==
    IF initErr # Nil
       THEN [reason |-> ExtensionError, err |-> initErr, deadline |-> parentDeadline]
       ELSE [reason |-> ShutdownReason(shutdownEvent), err |-> RunLoopErr(loopErr),
             deadline |-> ShutdownDeadline(shutdownEvent)]

\* Extension.Shutdown of a generic extension.
GenericShutdown ==
    /\ kind = "generic"
    /\ pc = "shutdown"
    /\ shutdownCalls' = Append(shutdownCalls, ShutdownArgs)
    /\ \E e \in {Nil, UserShutdownErr} : extShutdownErr' = e
    /\ pc' = "shutdownReturned"
    /\ UNCHANGED <<codecVars, clientVars, firstFired, kind, parentCancelled, parentDeadline, initCalls, initErr, polls,
                   shutdownEvent, loopErr, handled, reports, runResult, errCh,
                   signalled, handlerVars, recvVars>>

\* shutdown: shutdownErr = fmt.Errorf("Extension.Shutdown failed: %w", shutdownErr).
ShutdownErr(e) == IF e # Nil THEN Wrap("Extension.Shutdown failed", e) ELSE Nil

\* Mutant: only the loop error is reported, not the error of Extension.Shutdown.
ExitErrLoopOnly(le, se) == le

\* shutdown: the error reported with Client.ExitError (nil: no report).
ExitErr(le, se) == IF le = Nil THEN se ELSE le

\* Mutant: the shutdown error takes precedence over the loop error.
RunReturnShutdownFirst(le, se) == IF se # Nil THEN se ELSE le

\* Run: the first of the loop error and the shutdown error.
RunReturn(le, se) == IF le # Nil THEN le ELSE se

\* Mutant: the Init error is formatted into the message, not wrapped (%v for %w).
RunInitFailureNotWrapped(e) == <<"Extension.Init failed">>

\* What Run returns when Extension.Init failed.
RunInitFailure(e) == Wrap("Extension.Init failed", e)

\* Mutant: a failure of the exit-error report becomes what Run returns.
RunShutdownReturnedEscalates ==
    /\ pc = "shutdownReturned"
    /\ IF initErr # Nil
          THEN /\ runResult' = RunInitFailure(initErr)
               /\ UNCHANGED reports
          ELSE LET le == RunLoopErr(loopErr)
                   se == ShutdownErr(extShutdownErr)
               IN  /\ IF ExitErr(le, se) # Nil
                         THEN \E ok \in BOOLEAN :
                                 reports' = Append(reports,
                                     [kind |-> "exit", err |-> ExitErr(le, se), ok |-> ok])
                         ELSE UNCHANGED reports
                   /\ runResult' = (IF reports' # reports /\ ~reports'[Len(reports')].ok
                                       THEN <<"Client.ExitError failed">>
                                       ELSE RunReturn(le, se))
    /\ pc' = "done"
    /\ UNCHANGED <<codecVars, clientVars, firstFired, kind, parentCancelled, parentDeadline, initCalls, initErr, polls,
                   shutdownEvent, loopErr, handled, shutdownCalls, extShutdownErr,
                   errCh, signalled, handlerVars, recvVars>>

\* Run after Extension.Shutdown returned.  Init-failure path: return the wrapped
\* Init error.  Otherwise (function shutdown, then Run's return): report an exit
\* error if the loop or Extension.Shutdown failed, return the first of the two.
RunShutdownReturned ==
    /\ pc = "shutdownReturned"
    /\ IF initErr # Nil
          THEN /\ runResult' = RunInitFailure(initErr)
               /\ UNCHANGED reports
          ELSE LET le == RunLoopErr(loopErr)
                   se == ShutdownErr(extShutdownErr)
               IN  /\ IF ExitErr(le, se) # Nil
                         THEN \E ok \in BOOLEAN :
                                 reports' = Append(reports,
                                     [kind |-> "exit", err |-> ExitErr(le, se), ok |-> ok])
                         ELSE UNCHANGED reports
                   /\ runResult' = RunReturn(le, se)
    /\ pc' = "done"
    /\ UNCHANGED <<codecVars, clientVars, firstFired, kind, parentCancelled, parentDeadline, initCalls, initErr, polls,
                   shutdownEvent, loopErr, handled, shutdownCalls, extShutdownErr,
                   errCh, signalled, handlerVars, recvVars>>

\* The context passed to Run is cancelled (or its deadline passes).
ParentCancel ==
    /\ ~parentCancelled
    /\ pc # "done"
    /\ parentCancelled' = TRUE
    /\ firstFired' = Fire("ctx")
    /\ UNCHANGED <<codecVars, clientVars, kind, pc, parentDeadline, initCalls, initErr, polls, shutdownEvent,
                   loopErr, handled, shutdownCalls, extShutdownErr, reports, runResult,
                   errCh, signalled, handlerVars, recvVars>>

\* A generic extension signals an error on Err() with a non-blocking send.
GenericSignalErr ==
    /\ kind = "generic"
    /\ ~signalled
    /\ pc \notin {"register", "init", "done"}
    /\ signalled' = TRUE
    /\ errCh' = TrySend(errCh, UserSignalErr)
    /\ firstFired' = Fire("err")
    /\ UNCHANGED <<codecVars, clientVars, kind, pc, parentCancelled, parentDeadline, initCalls, initErr, polls,
                   shutdownEvent, loopErr, handled, shutdownCalls, extShutdownErr,
                   reports, runResult, handlerVars, recvVars>>


\* ------------------------------------------------------------------ receiver: Init
\* Mutant: a processing goroutine is started twice.
StartWorkersTwice(w) == [x \in DOMAIN w |-> "recv"]

\* Init: go ext.startEventProcessing(ctx).
StartWorkers(w) == [w EXCEPT ![1] = "recv"]

\* Mutant: Init calls EventProcessor.Init without having started the processing
\* goroutine.
RecvInitStartNoWorker ==
    /\ kind = "receiver"
    /\ pc = "init"
    /\ initCalls' = initCalls + 1
    /\ pc' = "r_procInit"
    /\ UNCHANGED <<codecVars, clientVars, firstFired, kind, parentCancelled, parentDeadline, initErr, polls, shutdownEvent,
                   loopErr, handled, shutdownCalls, extShutdownErr, reports, runResult,
                   errCh, signalled, handlerVars, worker, eventsCh, closes, processingDone,
                   decodeCancelled, srv, srvErr, passed, procFailed, procCalls>>

\* Extension.Init of the receiver, first statement: the processing goroutine is
\* started before EventProcessor.Init is called.
RecvInitStart ==
    /\ kind = "receiver"
    /\ pc = "init"
    /\ initCalls' = initCalls + 1
    /\ worker' = StartWorkers(worker)
    /\ pc' = "r_procInit"
    /\ UNCHANGED <<codecVars, clientVars, firstFired, kind, parentCancelled, parentDeadline, initErr, polls, shutdownEvent,
                   loopErr, handled, shutdownCalls, extShutdownErr, reports, runResult,
                   errCh, signalled, handlerVars, eventsCh, closes, processingDone,
                   decodeCancelled, srv, srvErr, passed, procFailed, procCalls>>

\* Init: ext.proc.Init; its error is returned wrapped.
RecvProcInit ==
    /\ pc = "r_procInit"
    /\ procCalls' = [procCalls EXCEPT !.init = @ + 1]
    /\ \E e \in {Nil, UserInitErr} :
          IF e # Nil
             THEN /\ initErr' = Wrap("EventProcessor.Init failed", e)
                  /\ pc' = "initReturned"
             ELSE /\ pc' = "r_listen"
                  /\ UNCHANGED initErr
    /\ UNCHANGED <<codecVars, clientVars, firstFired, kind, parentCancelled, parentDeadline, initCalls, polls, shutdownEvent,
                   loopErr, handled, shutdownCalls, extShutdownErr, reports, runResult,
                   errCh, signalled, handlerVars, worker, eventsCh, closes,
                   processingDone, decodeCancelled, srv, srvErr, passed, procFailed>>

\* Mutant: Init goes on to the subscribe call when the listener could not be started.
RecvListenIgnoresFailure ==
    /\ pc = "r_listen"
    /\ \E ok \in BOOLEAN :
          IF ok
             THEN /\ srv' = "serving"
                  /\ pc' = "r_subscribe"
                  /\ UNCHANGED initErr
             ELSE /\ pc' = "r_subscribe"
                  /\ UNCHANGED <<initErr, srv>>
    /\ UNCHANGED <<codecVars, clientVars, firstFired, kind, parentCancelled, parentDeadline, initCalls, polls, shutdownEvent,
                   loopErr, handled, shutdownCalls, extShutdownErr, reports, runResult,
                   errCh, signalled, handlerVars, worker, eventsCh, closes,
                   processingDone, decodeCancelled, srvErr, passed, procFailed, procCalls>>

\* Init: net.Listen, then the goroutine running srv.Serve.
RecvListen ==
    /\ pc = "r_listen"
    /\ \E ok \in BOOLEAN :
          IF ok
             THEN /\ srv' = "serving"
                  /\ pc' = "r_subscribe"
                  /\ UNCHANGED initErr
             ELSE /\ initErr' = Wrap("could not start event receiving HTTP server", ListenErr)
                  /\ pc' = "initReturned"
                  /\ UNCHANGED srv
    /\ UNCHANGED <<codecVars, clientVars, firstFired, kind, parentCancelled, parentDeadline, initCalls, polls, shutdownEvent,
                   loopErr, handled, shutdownCalls, extShutdownErr, reports, runResult,
                   errCh, signalled, handlerVars, worker, eventsCh, closes,
                   processingDone, decodeCancelled, srvErr, passed, procFailed, procCalls>>

\* Init: the subscribe call, whose result Init returns.
RecvSubscribe ==
    /\ pc = "r_subscribe"
    /\ procCalls' = [procCalls EXCEPT !.subscribe = @ + 1]
    /\ \E e \in {Nil, SubscribeErr} : initErr' = e
    /\ pc' = "initReturned"
    /\ UNCHANGED <<codecVars, clientVars, firstFired, kind, parentCancelled, parentDeadline, initCalls, polls, shutdownEvent,
                   loopErr, handled, shutdownCalls, extShutdownErr, reports, runResult,
                   errCh, signalled, handlerVars, worker, eventsCh, closes,
                   processingDone, decodeCancelled, srv, srvErr, passed, procFailed>>

\* srv.Serve returns an error other than ErrServerClosed: it is reported on errCh.
ServeFail ==
    /\ srv = "serving"
    /\ srv' = "failed"
    /\ errCh' = TrySend(errCh, Wrap("event receiving HTTP server failed", ServeErr))
    /\ firstFired' = Fire("err")
    /\ UNCHANGED <<codecVars, clientVars, kind, pc, parentCancelled, parentDeadline, initCalls, initErr, polls,
                   shutdownEvent, loopErr, handled, shutdownCalls, extShutdownErr,
                   reports, runResult, signalled, handlerVars, worker, eventsCh, closes,
                   processingDone, decodeCancelled, srvErr, passed, procFailed, procCalls>>

\* ------------------------------------------------------------------ receiver: pushes
\* Handlers whose request is being served (connections that are not idle).
ActiveHandlers == {h \in Handlers : hpc[h] \notin {"idle", "done"}}

\* The context of a request (BaseContext: decodeCtx, derived from Run's) is done.
DecodeCtxDone == decodeCancelled \/ parentCancelled

\* The subscribe call has succeeded: the platform knows the destination.
Subscribed == procCalls.subscribe > 0 /\ initErr = Nil

\* The platform pushes the next request to the subscribed destination; the server
\* starts a handler for it.
Push(h) ==
    /\ srv = "serving"
    /\ Subscribed
    /\ hpc[h] = "idle"
    /\ \A g \in Handlers : g < h => hpc[g] # "idle"
    /\ \E m \in Methods : hreq' = [hreq EXCEPT ![h] = NewRequest(m)]
    /\ hpc' = [hpc EXCEPT ![h] = "start"]
    /\ overlap' = (overlap \/ ActiveHandlers # {})
    /\ UNCHANGED <<codecVars, clientVars, runVars, hidx, hresp, panics, recvVars>>

\* Mutant: the request method is not checked; every request body is decoded.
ServeHTTPAnyMethod(h) ==
    /\ hpc[h] = "start"
    /\ \E tok \in OpenTokens :
          /\ hreq' = [hreq EXCEPT ![h] =
                         IF tok = "[" THEN Read(@, tok) ELSE DecodeExit(Read(@, tok))]
          /\ IF tok = "["
                THEN /\ hpc' = [hpc EXCEPT ![h] = "more"]
                     /\ UNCHANGED <<hresp, errCh>>
                ELSE /\ hresp' = [hresp EXCEPT ![h] = 500]
                     /\ errCh' = TrySend(errCh,
                            Wrap("decoding failed or interrupted", BracketErr))
                     /\ hpc' = [hpc EXCEPT ![h] = "done"]
    /\ firstFired' = (IF errCh' # errCh THEN Fire("err") ELSE firstFired)
    /\ UNCHANGED <<codecVars, clientVars, kind, pc, parentCancelled, parentDeadline, initCalls, initErr, polls,
                   shutdownEvent, loopErr, handled, shutdownCalls, extShutdownErr,
                   reports, runResult, signalled, hidx, panics, overlap, recvVars>>

\* ServeHTTP up to the first element: the method check, then Decode's
\* readBracket(d, "[").  Any failure is answered and reported on errCh.
ServeHTTP(h) ==
    /\ hpc[h] = "start"
    /\ IF hreq[h].method # "POST"
          THEN /\ hresp' = [hresp EXCEPT ![h] = 400]
               /\ errCh' = TrySend(errCh, MethodErr)
               /\ hpc' = [hpc EXCEPT ![h] = "done"]
               /\ UNCHANGED hreq
          ELSE \E tok \in OpenTokens :
                  /\ hreq' = [hreq EXCEPT ![h] =
                                 IF tok = "[" THEN Read(@, tok) ELSE DecodeExit(Read(@, tok))]
                  /\ IF tok = "["
                        THEN /\ hpc' = [hpc EXCEPT ![h] = "more"]
                             /\ UNCHANGED <<hresp, errCh>>
                        ELSE /\ hresp' = [hresp EXCEPT ![h] = 500]
                             /\ errCh' = TrySend(errCh,
                                    Wrap("decoding failed or interrupted", BracketErr))
                             /\ hpc' = [hpc EXCEPT ![h] = "done"]
    /\ firstFired' = (IF errCh' # errCh THEN Fire("err") ELSE firstFired)
    /\ UNCHANGED <<codecVars, clientVars, kind, pc, parentCancelled, parentDeadline, initCalls, initErr, polls,
                   shutdownEvent, loopErr, handled, shutdownCalls, extShutdownErr,
                   reports, runResult, signalled, hidx, panics, overlap, recvVars>>

\* Tokens the stream can hold at an element position: at most MaxBatchLen elements
\* decode ("ok"); the array may end ("]"), or the element may be one decodeNext
\* rejects ("bad").
ElementTokens(h) == {"]", "bad"} \cup (IF hidx[h] < MaxBatchLen THEN {"ok"} ELSE {})

\* Mutant: the first element of a batch that fails to decode is skipped and
\* decoding goes on with the next one.
DecodeNextSkipsBad(h) ==
    /\ hpc[h] = "more"
    /\ \E tok \in ElementTokens(h) :
          /\ hreq' = [hreq EXCEPT ![h] =
                         IF \/ tok = "ok" /\ ~DecodeCtxDone
                            \/ tok = "bad" /\ ~\E j \in DOMAIN @.body : @.body[j] = "bad"
                            THEN Read(@, tok)
                            ELSE DecodeExit(Read(@, tok))]
          /\ CASE tok = "]" ->
                    /\ hresp' = [hresp EXCEPT ![h] = 200]
                    /\ hpc' = [hpc EXCEPT ![h] = "done"]
                    /\ UNCHANGED errCh
               [] tok = "bad" ->
                    IF \E j \in DOMAIN hreq[h].body : hreq[h].body[j] = "bad"
                       THEN /\ hresp' = [hresp EXCEPT ![h] = 500]
                            /\ errCh' = TrySend(errCh, Wrap("decoding failed or interrupted", ElementErr))
                            /\ hpc' = [hpc EXCEPT ![h] = "done"]
                       ELSE UNCHANGED <<hresp, errCh, hpc>>
               [] tok = "ok" ->
                    IF DecodeCtxDone
                       THEN /\ hresp' = [hresp EXCEPT ![h] = 500]
                            /\ errCh' = TrySend(errCh,
                                   Wrap("decoding failed or interrupted",
                                        Wrap("decoding was interrupted with context error", CtxErr)))
                            /\ hpc' = [hpc EXCEPT ![h] = "done"]
                       ELSE /\ hpc' = [hpc EXCEPT ![h] = "send"]
                            /\ UNCHANGED <<hresp, errCh>>
    /\ firstFired' = (IF errCh' # errCh THEN Fire("err") ELSE firstFired)
    /\ UNCHANGED <<codecVars, clientVars, kind, pc, parentCancelled, parentDeadline, initCalls, initErr, polls,
                   shutdownEvent, loopErr, handled, shutdownCalls, extShutdownErr,
                   reports, runResult, signalled, hidx, panics, overlap, recvVars>>

\* Mutant: the element is sent without looking at the context.
DecodeNextNoCheck(h) ==
    /\ hpc[h] = "more"
    /\ \E tok \in ElementTokens(h) :
          /\ hreq' = [hreq EXCEPT ![h] =
                         IF tok = "ok" THEN Read(@, tok)
                         ELSE DecodeExit(Read(@, tok))]
          /\ CASE tok = "]" ->
                    /\ hresp' = [hresp EXCEPT ![h] = 200]
                    /\ hpc' = [hpc EXCEPT ![h] = "done"]
                    /\ UNCHANGED errCh
               [] tok = "bad" ->
                    /\ hresp' = [hresp EXCEPT ![h] = 500]
                    /\ errCh' = TrySend(errCh, Wrap("decoding failed or interrupted", ElementErr))
                    /\ hpc' = [hpc EXCEPT ![h] = "done"]
               [] tok = "ok" ->
                    IF FALSE
                       THEN /\ hresp' = [hresp EXCEPT ![h] = 500]
                            /\ errCh' = TrySend(errCh,
                                   Wrap("decoding failed or interrupted",
                                        Wrap("decoding was interrupted with context error", CtxErr)))
                            /\ hpc' = [hpc EXCEPT ![h] = "done"]
                       ELSE /\ hpc' = [hpc EXCEPT ![h] = "send"]
                            /\ UNCHANGED <<hresp, errCh>>
    /\ firstFired' = (IF errCh' # errCh THEN Fire("err") ELSE firstFired)
    /\ UNCHANGED <<codecVars, clientVars, kind, pc, parentCancelled, parentDeadline, initCalls, initErr, polls,
                   shutdownEvent, loopErr, handled, shutdownCalls, extShutdownErr,
                   reports, runResult, signalled, hidx, panics, overlap, recvVars>>

\* Decode, one turn of the loop up to the send: d.More(), decodeNext, then the
\* non-blocking check of ctx.Done(); or, when no element is left, readBracket(d, "]").
DecodeNext(h) ==
    /\ hpc[h] = "more"
    /\ \E tok \in ElementTokens(h) :
          /\ hreq' = [hreq EXCEPT ![h] =
                         IF tok = "ok" /\ ~DecodeCtxDone THEN Read(@, tok)
                         ELSE DecodeExit(Read(@, tok))]
          /\ CASE tok = "]" ->
                    /\ hresp' = [hresp EXCEPT ![h] = 200]
                    /\ hpc' = [hpc EXCEPT ![h] = "done"]
                    /\ UNCHANGED errCh
               [] tok = "bad" ->
                    /\ hresp' = [hresp EXCEPT ![h] = 500]
                    /\ errCh' = TrySend(errCh, Wrap("decoding failed or interrupted", ElementErr))
                    /\ hpc' = [hpc EXCEPT ![h] = "done"]
               [] tok = "ok" ->
                    IF DecodeCtxDone
                       THEN /\ hresp' = [hresp EXCEPT ![h] = 500]
                            /\ errCh' = TrySend(errCh,
                                   Wrap("decoding failed or interrupted",
                                        Wrap("decoding was interrupted with context error", CtxErr)))
                            /\ hpc' = [hpc EXCEPT ![h] = "done"]
                       ELSE /\ hpc' = [hpc EXCEPT ![h] = "send"]
                            /\ UNCHANGED <<hresp, errCh>>
    /\ firstFired' = (IF errCh' # errCh THEN Fire("err") ELSE firstFired)
    /\ UNCHANGED <<codecVars, clientVars, kind, pc, parentCancelled, parentDeadline, initCalls, initErr, polls,
                   shutdownEvent, loopErr, handled, shutdownCalls, extShutdownErr,
                   reports, runResult, signalled, hidx, panics, overlap, recvVars>>

\* The event a handler holds after decoding its next element: the elements of
\* all batches are distinct values.
NextMsg(h) == <<h, hidx[h] + 1>>

\* Mutant: the newest event is handed to Process ahead of the one before it.
DeliverBeforeLast(p, msg) ==
    IF p = <<>> THEN <<msg>> ELSE SubSeq(p, 1, Len(p) - 1) \o <<msg, p[Len(p)]>>

\* Mutant: the newest event is handed to Process ahead of the earlier ones.
DeliverFirst(p, msg) == <<msg>> \o p

\* The events passed to Process once msg has been received from the channel.
Deliver(p, msg) == Append(p, msg)

\* Mutant: after a send the next element is sent without a check of the context.
DecodeSendNextUnchecked(h, w) ==
    /\ hpc[h] = "send"
    /\ worker[w] = "recv"
    /\ eventsCh = "open"
    /\ passed' = Deliver(passed, NextMsg(h))
    /\ worker' = [worker EXCEPT ![w] = "process"]
    /\ hidx' = [hidx EXCEPT ![h] = @ + 1]
    /\ hpc' = [hpc EXCEPT ![h] = IF hidx'[h] < MaxBatchLen THEN "send" ELSE "more"]
    /\ UNCHANGED <<codecVars, clientVars, runVars, hreq, hresp, panics, overlap, eventsCh, closes,
                   processingDone, decodeCancelled, srv, srvErr, procFailed, procCalls>>

\* Decode: logs <- msg on the unbuffered channel, received by the range loop of
\* startEventProcessing, which then calls Process with it.
DecodeSend(h, w) ==
    /\ hpc[h] = "send"
    /\ worker[w] = "recv"
    /\ eventsCh = "open"
    /\ passed' = Deliver(passed, NextMsg(h))
    /\ worker' = [worker EXCEPT ![w] = "process"]
    /\ hidx' = [hidx EXCEPT ![h] = @ + 1]
    /\ hpc' = [hpc EXCEPT ![h] = "more"]
    /\ UNCHANGED <<codecVars, clientVars, runVars, hreq, hresp, panics, overlap, eventsCh, closes,
                   processingDone, decodeCancelled, srv, srvErr, procFailed, procCalls>>

\* Decode: logs <- msg when the channel is (or gets) closed panics; the deferred
\* function of Decode runs while the panic unwinds; net/http recovers the panic
\* of a handler and drops the connection without a response.
DecodeSendClosed(h) ==
    /\ hpc[h] = "send"
    /\ eventsCh = "closed"
    /\ panics' = panics \cup {h}
    /\ hpc' = [hpc EXCEPT ![h] = "done"]
    /\ hreq' = [hreq EXCEPT ![h] = DecodeExit(@)]
    /\ UNCHANGED <<codecVars, clientVars, runVars, hidx, hresp, overlap, recvVars>>

\* ------------------------------------------------------------------ receiver: worker
\* Mutant: the range loop goes on after a Process error.
ProcessReturnContinues(w) ==
    /\ worker[w] = "process"
    /\ \E ok \in BOOLEAN :
          IF ok
             THEN /\ worker' = [worker EXCEPT ![w] = "recv"]
                  /\ UNCHANGED <<errCh, procFailed>>
             ELSE /\ worker' = [worker EXCEPT ![w] = "recv"]
                  /\ procFailed' = procFailed + 1
                  /\ errCh' = TrySend(errCh, Wrap("EventProcessor.Process failed", UserProcessErr))
    /\ firstFired' = (IF errCh' # errCh THEN Fire("err") ELSE firstFired)
    /\ UNCHANGED <<codecVars, clientVars, kind, pc, parentCancelled, parentDeadline, initCalls, initErr, polls,
                   shutdownEvent, loopErr, handled, shutdownCalls, extShutdownErr,
                   reports, runResult, signalled, handlerVars, eventsCh, closes,
                   processingDone, decodeCancelled, srv, srvErr, passed, procCalls>>

\* startEventProcessing: Process returns.  On an error the error is reported on
\* errCh and the loop is left.
ProcessReturn(w) ==
    /\ worker[w] = "process"
    /\ \E ok \in BOOLEAN :
          IF ok
             THEN /\ worker' = [worker EXCEPT ![w] = "recv"]
                  /\ UNCHANGED <<errCh, procFailed>>
             ELSE /\ worker' = [worker EXCEPT ![w] = "exit"]
                  /\ procFailed' = procFailed + 1
                  /\ errCh' = TrySend(errCh, Wrap("EventProcessor.Process failed", UserProcessErr))
    /\ firstFired' = (IF errCh' # errCh THEN Fire("err") ELSE firstFired)
    /\ UNCHANGED <<codecVars, clientVars, kind, pc, parentCancelled, parentDeadline, initCalls, initErr, polls,
                   shutdownEvent, loopErr, handled, shutdownCalls, extShutdownErr,
                   reports, runResult, signalled, handlerVars, eventsCh, closes,
                   processingDone, decodeCancelled, srv, srvErr, passed, procCalls>>

\* Mutant: processingDoneCh is closed before the range loop has ended.
WorkerFinishSignalledEarly(w) ==
    /\ worker[w] \in {"recv", "exit"}
    /\ processingDone' = TRUE
    /\ worker' = [worker EXCEPT ![w] =
                     IF worker[w] = "exit" \/ eventsCh = "closed" THEN "done" ELSE @]
    /\ UNCHANGED <<codecVars, clientVars, runVars, handlerVars, eventsCh, closes, decodeCancelled, srv, srvErr,
                   passed, procFailed, procCalls>>

\* startEventProcessing: the range loop ends when the channel is closed, or was
\* left after a Process error; then close(ext.processingDoneCh).
WorkerFinish(w) ==
    /\ \/ worker[w] = "recv" /\ eventsCh = "closed"
       \/ worker[w] = "exit"
    /\ worker' = [worker EXCEPT ![w] = "done"]
    /\ processingDone' = TRUE
    /\ UNCHANGED <<codecVars, clientVars, runVars, handlerVars, eventsCh, closes, decodeCancelled, srv, srvErr,
                   passed, procFailed, procCalls>>

\* ------------------------------------------------------------------ receiver: Shutdown
\* Shutdown: ext.decodeCancel().
RecvShutdownCancel ==
    /\ kind = "receiver"
    /\ pc = "shutdown"
    /\ shutdownCalls' = Append(shutdownCalls, ShutdownArgs)
    /\ decodeCancelled' = TRUE
    /\ pc' = "sd_srv"
    /\ UNCHANGED <<codecVars, clientVars, firstFired, kind, parentCancelled, parentDeadline, initCalls, initErr, polls,
                   shutdownEvent, loopErr, handled, extShutdownErr, reports, runResult,
                   errCh, signalled, handlerVars, worker, eventsCh, closes,
                   processingDone, srv, srvErr, passed, procFailed, procCalls>>

\* Shutdown: ext.srv.Shutdown(ctx) begins by closing the listener: no new request.
RecvSrvShutdownBegin ==
    /\ pc = "sd_srv"
    /\ srv' = "closed"
    /\ pc' = "sd_srvWait"
    /\ UNCHANGED <<codecVars, clientVars, firstFired, kind, parentCancelled, parentDeadline, initCalls, initErr, polls,
                   shutdownEvent, loopErr, handled, shutdownCalls, extShutdownErr,
                   reports, runResult, errCh, signalled, handlerVars, worker, eventsCh,
                   closes, processingDone, decodeCancelled, srvErr, passed, procFailed,
                   procCalls>>

\* The context passed to Extension.Shutdown can be done: Run's context is, or it
\* carries the deadline of the Shutdown event (function shutdown), which may pass.
ShutdownCtxCanBeDone == parentCancelled \/ (initErr = Nil /\ shutdownEvent # NoEvent)

\* Shutdown: ext.srv.Shutdown(ctx) returns nil once no handler is running, or the
\* context's error when the context is done while handlers still run.
RecvSrvShutdownReturn ==
    /\ pc = "sd_srvWait"
    /\ \/ /\ ActiveHandlers = {}
          /\ srvErr' = Nil
       \/ /\ ActiveHandlers # {}
          /\ ShutdownCtxCanBeDone
          /\ srvErr' = Wrap("could not gravefully shut down events receiving HTTP server", CtxErr)
    /\ pc' = "sd_close"
    /\ UNCHANGED <<codecVars, clientVars, firstFired, kind, parentCancelled, parentDeadline, initCalls, initErr, polls,
                   shutdownEvent, loopErr, handled, shutdownCalls, extShutdownErr,
                   reports, runResult, errCh, signalled, handlerVars, worker, eventsCh,
                   closes, processingDone, decodeCancelled, srv, passed, procFailed,
                   procCalls>>

\* Shutdown: close(ext.eventsCh).
RecvCloseEvents ==
    /\ pc = "sd_close"
    /\ eventsCh' = "closed"
    /\ closes' = closes + 1
    /\ pc' = "sd_wait"
    /\ UNCHANGED <<codecVars, clientVars, firstFired, kind, parentCancelled, parentDeadline, initCalls, initErr, polls,
                   shutdownEvent, loopErr, handled, shutdownCalls, extShutdownErr,
                   reports, runResult, errCh, signalled, handlerVars, worker,
                   processingDone, decodeCancelled, srv, srvErr, passed, procFailed,
                   procCalls>>

\* Mutant: Shutdown does not wait for processingDoneCh.
ProcessingNotAwaited == TRUE

\* Shutdown: <-ext.processingDoneCh can be received.
ProcessingFinished == processingDone

\* Shutdown: wait for the processing goroutine.
RecvWaitProcessing ==
    /\ pc = "sd_wait"
    /\ ProcessingFinished
    /\ pc' = "sd_proc"
    /\ UNCHANGED <<codecVars, clientVars, firstFired, kind, parentCancelled, parentDeadline, initCalls, initErr, polls,
                   shutdownEvent, loopErr, handled, shutdownCalls, extShutdownErr,
                   reports, runResult, errCh, signalled, handlerVars, recvVars>>

\* Mutant: the error of the server stop takes precedence.
RecvShutdownResultServerFirst(procErr, serverErr) ==
    IF serverErr # Nil THEN serverErr
    ELSE IF procErr # Nil THEN Wrap("EventProcessor.Shutdown failed", procErr) ELSE Nil

\* Shutdown's result: the processor's error (wrapped) if any, else the server's.
RecvShutdownResult(procErr, serverErr) ==
    IF procErr # Nil THEN Wrap("EventProcessor.Shutdown failed", procErr) ELSE serverErr

\* Shutdown: ext.proc.Shutdown, then return.
RecvProcShutdown ==
    /\ pc = "sd_proc"
    /\ \E e \in {Nil, UserShutdownErr} :
          /\ procCalls' = [procCalls EXCEPT !.shutdown = @ + 1, !.shutdownErr = e]
          /\ extShutdownErr' = RecvShutdownResult(e, srvErr)
    /\ pc' = "shutdownReturned"
    /\ UNCHANGED <<codecVars, clientVars, firstFired, kind, parentCancelled, parentDeadline, initCalls, initErr, polls,
                   shutdownEvent, loopErr, handled, shutdownCalls, reports, runResult,
                   errCh, signalled, handlerVars, worker, eventsCh, closes,
                   processingDone, decodeCancelled, srv, srvErr, passed, procFailed>>

\* ------------------------------------------------------------------ specification
Next ==
    \/ RunRegister
    \/ GenericInit
    \/ RunInitReturned
    \/ LoopStartPoll
    \/ \E i \in 1..Len(polls) : PollEvent(i)
    \/ \E i \in 1..Len(polls) : PollError(i)
    \/ \E i \in 1..Len(polls) : PollCancelled(i)
    \/ LoopRecvEvent
    \/ GenericHandleReturn
    \/ LoopRecvPollErr
    \/ LoopRecvErrCh
    \/ LoopRecvCtxDone
    \/ GenericShutdown
    \/ RunShutdownReturned
    \/ ParentCancel
    \/ GenericSignalErr
    \/ RecvInitStart
    \/ RecvProcInit
    \/ RecvListen
    \/ RecvSubscribe
    \/ ServeFail
    \/ \E h \in Handlers : Push(h)
    \/ \E h \in Handlers : ServeHTTP(h)
    \/ \E h \in Handlers : DecodeNext(h)
    \/ \E h \in Handlers, w \in WorkerIds : DecodeSend(h, w)
    \/ \E h \in Handlers : DecodeSendClosed(h)
    \/ \E w \in WorkerIds : ProcessReturn(w)
    \/ \E w \in WorkerIds : WorkerFinish(w)
    \/ RecvShutdownCancel
    \/ RecvSrvShutdownBegin
    \/ RecvSrvShutdownReturn
    \/ RecvCloseEvents
    \/ RecvWaitProcessing
    \/ RecvProcShutdown

Spec == Init /\ [][Next]_vars

\* The steps of the program's own goroutines (Run, the poll goroutines once their
\* context is done, the push handlers, the processing goroutine), as opposed to
\* those of its environment: the platform answering polls and pushing requests,
\* the cancellation of Run's context, a failure of Serve, a signal on Err().
ProgramNext ==
    \/ RunRegister
    \/ GenericInit
    \/ RunInitReturned
    \/ LoopStartPoll
    \/ \E i \in 1..Len(polls) : PollCancelled(i)
    \/ LoopRecvEvent
    \/ GenericHandleReturn
    \/ LoopRecvPollErr
    \/ LoopRecvErrCh
    \/ LoopRecvCtxDone
    \/ GenericShutdown
    \/ RunShutdownReturned
    \/ RecvInitStart
    \/ RecvProcInit
    \/ RecvListen
    \/ RecvSubscribe
    \/ \E h \in Handlers : ServeHTTP(h)
    \/ \E h \in Handlers : DecodeNext(h)
    \/ \E h \in Handlers, w \in WorkerIds : DecodeSend(h, w)
    \/ \E h \in Handlers : DecodeSendClosed(h)
    \/ \E w \in WorkerIds : ProcessReturn(w)
    \/ \E w \in WorkerIds : WorkerFinish(w)
    \/ RecvShutdownCancel
    \/ RecvSrvShutdownBegin
    \/ RecvSrvShutdownReturn
    \/ RecvCloseEvents
    \/ RecvWaitProcessing
    \/ RecvProcShutdown

\* The goroutines of the program keep running: every step of Run, of the push
\* handlers and of the processing goroutine is eventually taken when it stays
\* possible.  Nothing is assumed of the platform (pushes, poll answers), of the
\* cancellation of Run's context, or of errors the extension signals.
Fairness ==
    /\ WF_vars(RunRegister) /\ WF_vars(GenericInit) /\ WF_vars(RunInitReturned)
    /\ WF_vars(LoopStartPoll) /\ WF_vars(LoopRecvEvent) /\ WF_vars(GenericHandleReturn)
    /\ WF_vars(LoopRecvPollErr) /\ WF_vars(LoopRecvErrCh) /\ WF_vars(LoopRecvCtxDone)
    /\ WF_vars(GenericShutdown) /\ WF_vars(RunShutdownReturned)
    /\ \A i \in 1..(MaxInvokes + 1) : WF_vars(i <= Len(polls) /\ PollCancelled(i))
    /\ WF_vars(RecvInitStart) /\ WF_vars(RecvProcInit) /\ WF_vars(RecvListen)
    /\ WF_vars(RecvSubscribe)
    /\ \A h \in Handlers : WF_vars(ServeHTTP(h)) /\ WF_vars(DecodeNext(h))
                           /\ WF_vars(DecodeSendClosed(h))
    /\ \A h \in Handlers, w \in WorkerIds : WF_vars(DecodeSend(h, w))
    /\ \A w \in WorkerIds : WF_vars(ProcessReturn(w)) /\ WF_vars(WorkerFinish(w))
    /\ WF_vars(RecvShutdownCancel) /\ WF_vars(RecvSrvShutdownBegin)
    /\ WF_vars(RecvSrvShutdownReturn) /\ WF_vars(RecvCloseEvents)
    /\ WF_vars(RecvWaitProcessing) /\ WF_vars(RecvProcShutdown)

FairSpec == Spec /\ Fairness

\* ------------------------------------------------------------------ the protocol client
\* Register called directly, with the default options.
ClientRegister ==
    /\ clientState = "none"
    /\ Register(<<>>)
    /\ UNCHANGED <<codecVars, runVars, handlerVars, recvVars>>

\* NextEvent, InitError, ExitError, the subscribe calls: each builds its request
\* and sends it through doRequest; it returns a result only when doRequest
\* returns no error, and the wrapped error otherwise.  Whatever the outcome,
\* the Client is unchanged.
ClientCall(op) ==
    /\ clientState = "registered"
    /\ Len(requests) <= MaxCalls
    /\ requests' = Append(requests, [op |-> op, id |-> IdHeader(clientID)])
    /\ \E resp \in Responses({""}) :
          LET e == DoRequest(WantStatus(op), resp, HasOut(op))
          IN lastCall' = [op |-> op, resp |-> resp, err |-> e,
                          out |-> (e = NoError /\ HasOut(op)),
                          ret |-> (IF e = NoError THEN Nil ELSE Wrap(CallFailed(op), ErrChain(e)))]
    /\ UNCHANGED <<codecVars, clientID, clientState, runVars, handlerVars, recvVars>>

\* A Client used on its own, as the low-level API allows: Register, then any
\* calls in any order.
ClientInit == Init /\ kind = "generic" /\ parentDeadline = 0

ClientNext ==
    \/ ClientRegister
    \/ \E op \in ClientOps : ClientCall(op)

ClientSpec == ClientInit /\ [][ClientNext]_vars

\* ------------------------------------------------------------------ the loop alone
\* Run driving a generic extension: the run loop without the receiver.
LoopInit == Init /\ kind = "generic"

LoopNext ==
    \/ RunRegister
    \/ GenericInit
    \/ RunInitReturned
    \/ LoopStartPoll
    \/ \E i \in 1..Len(polls) : PollEvent(i)
    \/ \E i \in 1..Len(polls) : PollError(i)
    \/ \E i \in 1..Len(polls) : PollCancelled(i)
    \/ LoopRecvEvent
    \/ GenericHandleReturn
    \/ LoopRecvPollErr
    \/ LoopRecvErrCh
    \/ LoopRecvCtxDone
    \/ GenericShutdown
    \/ RunShutdownReturned
    \/ ParentCancel
    \/ GenericSignalErr

LoopSpec == LoopInit /\ [][LoopNext]_vars

\* The goroutine that called Run keeps running and the user's callbacks and the
\* error reports return; a poll whose context is done returns.  Nothing is
\* assumed of the platform: a poll may stay unanswered for ever.
LoopFairness ==
    /\ WF_vars(RunRegister) /\ WF_vars(GenericInit) /\ WF_vars(RunInitReturned)
    /\ WF_vars(LoopStartPoll) /\ WF_vars(LoopRecvEvent) /\ WF_vars(GenericHandleReturn)
    /\ WF_vars(LoopRecvPollErr) /\ WF_vars(LoopRecvErrCh) /\ WF_vars(LoopRecvCtxDone)
    /\ WF_vars(GenericShutdown) /\ WF_vars(RunShutdownReturned)
    /\ \A i \in 1..(MaxInvokes + 1) : WF_vars(i <= Len(polls) /\ PollCancelled(i))

LoopFairSpec == LoopSpec /\ LoopFairness

TypeOK ==
    /\ kind \in Kinds
    /\ Len(errCh) <= 1
    /\ \A h \in Handlers : hresp[h] \in {0, 200, 400, 500}


\* ------------------------------------------------------------------ properties
IsPrefix(a, b) == Len(a) <= Len(b) /\ SubSeq(b, 1, Len(a)) = a

\* The events of the batch of push h that the decoder has decoded so far.
BatchEvents(h) ==
    [i \in 1..Cardinality({j \in DOMAIN hreq[h].body : hreq[h].body[j] = "ok"}) |-> <<h, i>>]

RECURSIVE BatchesUpTo(_)
\* The concatenation of the batches of pushes 1..n, in push order.
BatchesUpTo(n) == IF n = 0 THEN <<>> ELSE BatchesUpTo(n - 1) \o BatchEvents(n)

PushedHandlers == {h \in Handlers : hpc[h] # "idle"}

\* ext.Shutdown of the receiver has returned.
RecvShutdownReturned == kind = "receiver" /\ pc \in {"shutdownReturned", "done"}

ExitReports == {i \in DOMAIN reports : reports[i].kind = "exit"}
InitReports == {i \in DOMAIN reports : reports[i].kind = "init"}

\* C1: when the batches are pushed one after another, every finished push was
\* answered 200 (its batch decoded successfully) and no Process call failed, the
\* events passed to Process are, in order, a prefix of the concatenation of the
\* batches in push order, and the whole concatenation once every push is finished.
C1_Concatenation ==
    (/\ kind = "receiver"
     /\ ~overlap
     /\ procFailed = 0
     /\ \A h \in Handlers : hpc[h] = "done" => hresp[h] = 200)
    => /\ IsPrefix(passed, BatchesUpTo(Cardinality(PushedHandlers)))
       /\ (ActiveHandlers = {} => passed = BatchesUpTo(Cardinality(PushedHandlers)))

C1_Witness ==
    /\ kind = "receiver"
    /\ ~overlap
    /\ procFailed = 0
    /\ \A h \in Handlers : hpc[h] = "done" /\ hresp[h] = 200
    /\ passed = <<<<1, 1>>, <<1, 2>>, <<2, 1>>, <<2, 2>>>>

\* C2: once the receiver's Shutdown has returned, every event sent on the channel
\* has been passed to Process and no Process call is still running.
C2_ShutdownAfterDrain ==
    RecvShutdownReturned
    => /\ \A w \in WorkerIds : worker[w] # "process"
       /\ \A h \in Handlers : \A i \in 1..hidx[h] : \E k \in DOMAIN passed : passed[k] = <<h, i>>

C2_Witness ==
    /\ RecvShutdownReturned
    /\ shutdownEvent # NoEvent
    /\ Len(passed) >= 2

\* C3: the event channel is closed at most once, and from the moment it is closed
\* no push handler is sending on it or blocked sending on it (no send on the
\* closed channel ever happens).
C3_NoSendAfterClose ==
    /\ closes <= 1
    /\ eventsCh = "closed" => (panics = {} /\ \A h \in Handlers : hpc[h] # "send")

\* C4: once the receiver's Shutdown has cancelled the decode context, it is never
\* stuck: until Shutdown has returned, some goroutine of the program can take a
\* step (every in-flight handler returns, the server stop ends, Shutdown returns),
\* with no help from the environment.
C4_ShutdownNotStuck ==
    (kind = "receiver" /\ decodeCancelled /\ ~RecvShutdownReturned) => ENABLED ProgramNext

\* C5: at most one Process call is executing at any time.
C5_OneProcess == Cardinality({w \in WorkerIds : worker[w] = "process"}) <= 1

C5_Witness ==
    /\ \E w \in WorkerIds : worker[w] = "process"
    /\ \A h \in Handlers : hpc[h] = "send"

\* C6: once Processor.Shutdown has been called, the processing-finished signal is
\* closed and the processing goroutine has ended: no Process call is running and
\* none can start.
C6_ProcShutdownAfterWorker ==
    procCalls.shutdown > 0
    => /\ processingDone
       /\ \A w \in WorkerIds : worker[w] \in {"none", "done"}

C6_Witness ==
    /\ procCalls.shutdown > 0
    /\ Len(passed) >= 2
    /\ procFailed = 0

\* C7: when Run of the receiver has returned after a successful Init and a Process
\* call returned an error, Run returned a non-nil error and an exit-error was reported.
C7_ProcessErrorSurfaces ==
    (kind = "receiver" /\ pc = "done" /\ initErr = Nil /\ procFailed > 0)
    => (runResult # Nil /\ ExitReports # {})

\* C8: when Extension.Init returned an error, no poll is ever made and no
\* exit-error is reported; Extension.Shutdown is called at most once, with reason
\* ExtensionError and the Init error; and when Run has returned, the init-error was
\* reported exactly once, Shutdown was called exactly once, and Run returned an
\* error wrapping the Init error.
C8_InitFailure ==
    initErr # Nil
    => /\ polls = <<>>
       /\ ExitReports = {}
       /\ Len(shutdownCalls) <= 1
       /\ \A i \in DOMAIN shutdownCalls :
             shutdownCalls[i].reason = ExtensionError /\ shutdownCalls[i].err = initErr
       /\ \A i \in InitReports : reports[i].err = initErr
       /\ pc = "done" => /\ Cardinality(InitReports) = 1
                         /\ Len(shutdownCalls) = 1
                         /\ Is(runResult, initErr)

C8_Witness ==
    /\ pc = "done"
    /\ initErr = UserInitErr
    /\ Len(shutdownCalls) = 1

\* C9: when the loop has received a Shutdown event from a poll, it ended with no
\* error, Extension.Shutdown is called with the reason of that event and a nil
\* error, and, if Shutdown returned nil, Run returns nil and nothing is reported.
C9_ShutdownEvent ==
    shutdownEvent # NoEvent
    => /\ loopErr = Nil
       /\ \A i \in DOMAIN shutdownCalls :
             shutdownCalls[i].reason = shutdownEvent.reason /\ shutdownCalls[i].err = Nil
       /\ pc = "done" => /\ Len(shutdownCalls) = 1
                         /\ extShutdownErr = Nil => (runResult = Nil /\ reports = <<>>)

C9_Witness ==
    /\ pc = "done"
    /\ shutdownEvent # NoEvent
    /\ shutdownEvent.reason = "spindown"
    /\ Len(shutdownCalls) = 1
    /\ runResult = Nil

\* C10: when Run has returned after a successful Init, it returned the loop error
\* (wrapped) if the loop ended with one, otherwise the error of Extension.Shutdown
\* (wrapped) if it returned one, otherwise nil.
C10_RunResult ==
    (pc = "done" /\ initCalls > 0 /\ initErr = Nil)
    => /\ loopErr # Nil => (Is(runResult, loopErr) /\ ~Is(runResult, UserShutdownErr))
       /\ (loopErr = Nil /\ extShutdownErr # Nil) => Is(runResult, extShutdownErr)
       /\ (loopErr = Nil /\ extShutdownErr = Nil) => runResult = Nil

C10_Witness ==
    /\ pc = "done"
    /\ initErr = Nil
    /\ loopErr # Nil
    /\ extShutdownErr = UserShutdownErr

\* C11: an exit-error is reported at most once, and only when Run returns after a
\* successful Init and after Extension.Shutdown has returned; when Run has
\* returned after a successful Init, it was reported exactly once if the loop
\* ended with an error or Extension.Shutdown returned one, and not at all otherwise.
C11_ExitReport ==
    /\ Cardinality(ExitReports) <= 1
    /\ ExitReports # {} => /\ pc = "done"
                           /\ initErr = Nil
                           /\ Len(shutdownCalls) = 1
                           /\ loopErr # Nil \/ extShutdownErr # Nil
    /\ (pc = "done" /\ initCalls > 0 /\ initErr = Nil)
       => (Cardinality(ExitReports) = 1 <=> (loopErr # Nil \/ extShutdownErr # Nil))

C11_Witness ==
    /\ pc = "done"
    /\ initErr = Nil
    /\ loopErr = Nil
    /\ extShutdownErr # Nil
    /\ Cardinality(ExitReports) = 1

\* C12: Extension.Init and Extension.Shutdown are each called at most once,
\* Shutdown only after Init; and when Run has returned after a successful
\* registration, each has been called exactly once.
C12_InitShutdownOnce ==
    /\ initCalls <= 1
    /\ Len(shutdownCalls) <= 1
    /\ shutdownCalls # <<>> => initCalls = 1
    /\ (pc = "done" /\ clientState = "registered") => (initCalls = 1 /\ Len(shutdownCalls) = 1)

C12_Witness ==
    /\ pc = "done"
    /\ initErr # Nil
    /\ initCalls = 1
    /\ Len(shutdownCalls) = 1

\* C13: every call of HandleInvokeEvent is made after Extension.Init has returned
\* nil and before Extension.Shutdown is called.
C13_HandleWindow ==
    [][handled' # handled
       => /\ initCalls = 1
          /\ initErr = Nil
          /\ pc \notin {"register", "init", "initReturned"}
          /\ shutdownCalls = <<>>
          /\ shutdownCalls' = <<>>]_vars

C13_Witness ==
    /\ handled # <<>>
    /\ Len(shutdownCalls) = 1

\* C14 (as claimed): every Invoke event the loop received was passed to
\* HandleInvokeEvent unchanged, with a context whose deadline equals the
\* event's DeadlineMs, whatever the context passed to Run.
C14_DeadlineEqualsEvent ==
    /\ \A i \in DOMAIN polls :
          (polls[i].st = "exited" /\ polls[i].ev.type = "INVOKE") => i \in DOMAIN handled
    /\ \A i \in DOMAIN handled :
          /\ handled[i].ev = polls[i].ev
          /\ handled[i].deadline = handled[i].ev.deadlineMs

\* C14 (amended): every Invoke event the loop received was passed to
\* HandleInvokeEvent unchanged, with a context whose deadline is the event's
\* DeadlineMs, or the deadline of the context passed to Run when that is earlier.
C14_HandleDeadline ==
    /\ \A i \in DOMAIN polls :
          (polls[i].st = "exited" /\ polls[i].ev.type = "INVOKE") => i \in DOMAIN handled
    /\ \A i \in DOMAIN handled :
          /\ handled[i].ev = polls[i].ev
          /\ handled[i].deadline <= handled[i].ev.deadlineMs
          /\ (parentDeadline = 0 \/ parentDeadline >= handled[i].ev.deadlineMs)
                => handled[i].deadline = handled[i].ev.deadlineMs
          /\ (parentDeadline # 0 /\ parentDeadline < handled[i].ev.deadlineMs)
                => handled[i].deadline = parentDeadline

C14_Witness ==
    /\ parentDeadline = 1
    /\ handled # <<>>
    /\ handled[1].ev.deadlineMs = 2
    /\ handled[1].deadline = 1
    /\ pc = "done"

\* The events of push h that have been passed to Process.
PassedOf(h) == {passed[k] : k \in {j \in DOMAIN passed : passed[j][1] = h}}

\* The elements of the batch of push h that decoded, among its first p tokens.
DecodedBefore(h, p) == Cardinality({j \in 1..(p - 1) : hreq[h].body[j] = "ok"})

\* C15: once the decoder has met an element of a batch that fails to decode, the
\* events of that batch passed to Process are exactly the elements before the
\* failing one: each of them has been passed, and none after it ever is.
C15_DecodeFailure ==
    \A h \in Handlers : \A p \in DOMAIN hreq[h].body :
       (p > 1 /\ hreq[h].body[p] = "bad")
       => /\ PassedOf(h) = {<<h, i>> : i \in 1..DecodedBefore(h, p)}
          /\ hpc[h] = "done"
          /\ hresp[h] = 500

C15_Witness ==
    \E h \in Handlers :
       /\ hreq[h].body = <<"[", "ok", "bad">>
       /\ PassedOf(h) = {<<h, 1>>}
       /\ pc = "done"

\* An error has been put on the Err() channel: it is still there, or the loop
\* has received it.
ErrSignalSeen ==
    \/ errCh # <<>>
    \/ (loopErr # Nil /\ loopErr[1] = "Extension.Err() signaled an error")

\* e is an error reported by a push handler (alone or wrapped).
HandlerErr(e) ==
    \E i \in DOMAIN e : e[i] \in {MethodErr[1], "decoding failed or interrupted"}

\* The whole batch of push h decoded: "[", elements that decode, "]".
WholeBatchDecoded(h) ==
    LET b == hreq[h].body IN
    /\ Len(b) >= 2
    /\ b[1] = "["
    /\ b[Len(b)] = "]"
    /\ \A j \in 2..(Len(b) - 1) : b[j] = "ok"

\* C16: a finished push handler answered 400 exactly when the request was not a
\* POST, then without decoding or sending anything; 200 exactly when the whole
\* batch decoded and every element of it was sent; 500 when decoding failed or
\* was interrupted.  After a 400 or 500 an error has been reported on the
\* error-signal channel; while every answer given is 200, no error of a push
\* handler has.
C16_HandlerContract ==
    /\ \A h \in Handlers :
          /\ hresp[h] # 0 => hpc[h] = "done"
          /\ (hpc[h] = "done" /\ hreq[h].method # "POST") => hresp[h] = 400
          /\ hresp[h] = 400 => /\ hreq[h].method # "POST"
                               /\ hreq[h].body = <<>>
                               /\ hidx[h] = 0
                               /\ PassedOf(h) = {}
                               /\ ErrSignalSeen
          /\ hresp[h] = 200 <=> /\ hpc[h] = "done"
                                /\ hreq[h].method = "POST"
                                /\ WholeBatchDecoded(h)
          /\ hresp[h] = 200 => /\ hidx[h] = Len(hreq[h].body) - 2
                               /\ PassedOf(h) = {<<h, i>> : i \in 1..hidx[h]}
          /\ hresp[h] = 500 => /\ hreq[h].method = "POST"
                               /\ ~WholeBatchDecoded(h)
                               /\ \/ hreq[h].body[Len(hreq[h].body)] = "bad"
                                  \/ DecodeCtxDone
                               /\ ErrSignalSeen
          /\ (hpc[h] = "done" /\ hreq[h].method = "POST" /\ ~WholeBatchDecoded(h)
              /\ h \notin panics) => hresp[h] = 500
    /\ (\A h \in Handlers : hresp[h] \in {0, 200})
       => /\ \A i \in DOMAIN errCh : ~HandlerErr(errCh[i])
          /\ ~HandlerErr(loopErr)

C16_Witness ==
    /\ hresp[1] = 200
    /\ hreq[1].body = <<"[", "ok", "ok", "]">>
    /\ hresp[2] = 400
    /\ pc = "done"

\* A step in which a goroutine reports an error on the Err() channel: a push
\* handler answering 400 or 500, the worker after a failed Process, the Serve
\* goroutine after a failure, the generic extension signalling.
Reported ==
    \/ \E h \in Handlers : hresp[h] = 0 /\ hresp'[h] \in {400, 500}
    \/ procFailed' > procFailed
    \/ (srv = "serving" /\ srv' = "failed")
    \/ (~signalled /\ signalled')

\* A goroutine about to report is never blocked, whatever the channel holds.
ReportersNotBlocked ==
    /\ \A h \in Handlers : (hpc[h] = "start" => ENABLED ServeHTTP(h))
                           /\ (hpc[h] = "more" => ENABLED DecodeNext(h))
    /\ \A w \in WorkerIds : worker[w] = "process" => ENABLED ProcessReturn(w)
    /\ srv = "serving" => ENABLED ServeFail

\* C17: reporting an error on the Err() channel never blocks the reporter; the
\* channel holds at most one error; an error reported while the channel is empty
\* is held, one reported while an error is held is discarded, and a held error
\* is never replaced (it only leaves when the loop receives it): the held error
\* is the first one reported.
C17_ErrSignal ==
    /\ []ReportersNotBlocked
    /\ [][/\ Len(errCh') <= 1
          /\ errCh # <<>> => errCh' \in {errCh, <<>>}
          /\ (Reported /\ errCh = <<>>) => Len(errCh') = 1
          /\ (Reported /\ errCh # <<>>) => errCh' = errCh]_vars

C17_Witness ==
    /\ errCh = <<MethodErr>>
    /\ hresp[1] = 400
    /\ hresp[2] = 500
    /\ procFailed = 1
    /\ loopErr = Nil

\* The source whose error or event the loop returned.
SurfacedSource(e, ev) ==
    IF ev # NoEvent THEN "poll"
    ELSE IF e = Nil THEN "none"
    ELSE CASE e[1] = "Client.NextEvent failed" -> "poll"
           [] e[1] = "Extension.Err() signaled an error" -> "err"
           [] e[1] = "context cancelled before calling Client.NextEvent" -> "ctx"
           [] OTHER -> "handler"

\* The step in which the loop's select makes the loop return.
LoopReturns == pc = "select" /\ pc' = "shutdown"

\* The sources that have fired and not been received: a select finds them ready.
ReadySources ==
    {s \in Sources :
        \/ s = "poll" /\ \E i \in DOMAIN polls :
                            \/ polls[i].st = "err"
                            \/ polls[i].st = "event" /\ polls[i].ev.type = "SHUTDOWN"
        \/ s = "err" /\ errCh # <<>>
        \/ s = "ctx" /\ parentCancelled}

\* C18 (as claimed): when the loop's select makes the loop return, what it
\* returns (an error, or the Shutdown event) comes from the source that fired
\* first among the poll, the Err() channel and the parent context.
C18_FirstErrorSurfaced ==
    [][LoopReturns => SurfacedSource(loopErr', shutdownEvent') = firstFired]_vars

\* C18 (amended): when the loop's select makes the loop return, what it returns
\* is the error or event of a source that had already fired, and of the first
\* one to fire when no other source had fired by then; once the loop has
\* returned, its result never changes, whatever fires later.
C18_SurfacedHadFired ==
    [][/\ LoopReturns
          => /\ SurfacedSource(loopErr', shutdownEvent') \in ReadySources
             /\ firstFired \in ReadySources
             /\ Cardinality(ReadySources) = 1
                   => SurfacedSource(loopErr', shutdownEvent') = firstFired
             /\ shutdownEvent' # NoEvent
                   => /\ loopErr' = Nil
                      /\ \E i \in DOMAIN polls :
                            polls[i].st = "event" /\ polls[i].ev = shutdownEvent'
             /\ SurfacedSource(loopErr', shutdownEvent') = "err" => Is(loopErr', errCh[1])
             /\ (shutdownEvent' = NoEvent /\ SurfacedSource(loopErr', shutdownEvent') = "poll")
                   => \E i \in DOMAIN polls : polls[i].st = "err" /\ Is(loopErr', polls[i].err)
             /\ SurfacedSource(loopErr', shutdownEvent') = "ctx" => Is(loopErr', CtxErr)
       /\ LoopExited => (loopErr' = loopErr /\ shutdownEvent' = shutdownEvent)]_vars

C18_Witness ==
    /\ pc = "done"
    /\ SurfacedSource(loopErr, shutdownEvent) = "err"
    /\ \E i \in DOMAIN polls : polls[i].st = "err" /\ polls[i].err = NextEventErr
    /\ parentCancelled
    /\ Is(runResult, UserSignalErr)

\* C19: while the loop is running, once an error is on the Err() channel or the
\* parent context is cancelled, the loop returns, Extension.Shutdown is called
\* and Run returns, even if the outstanding poll is never answered.
C19_ExitDespiteBlockedPoll ==
    (/\ pc \in {"loop", "select", "handle"}
     /\ errCh # <<>> \/ parentCancelled)
    ~> (pc = "done" /\ Len(shutdownCalls) = 1)

C19_Witness ==
    /\ pc = "done"
    /\ polls # <<>>
    /\ polls[Len(polls)].st = "calling"
    /\ SurfacedSource(loopErr, shutdownEvent) = "err"
    /\ Len(shutdownCalls) = 1

\* C20: once Register has returned a Client, its identifier is not empty and
\* never changes; the register request carried no identifier header, and every
\* later request carries exactly the Client's identifier.
C20_Identity ==
    /\ [](/\ requests # <<>> => (requests[1].op = "register" /\ requests[1].id = "")
          /\ clientState = "registered"
             => /\ clientID # ""
                /\ \A k \in 2..Len(requests) :
                      requests[k].op \in ClientOps /\ requests[k].id = clientID)
    /\ [][clientState = "registered" => (clientID' = clientID /\ clientState' = clientState)]_vars

C20_Witness ==
    /\ clientState = "registered"
    /\ clientID = "id-a"
    /\ Len(requests) = 4
    /\ requests[2].op = "subscribe"
    /\ requests[3].op = "event/next"
    /\ requests[4].op = "exit/error"

\* C21: when the 200 response to the register call carries no identifier
\* header, Register returns an error and no Client, and Run returns that error
\* without calling Init or Shutdown.
C21_NoIdentifier ==
    (/\ lastCall.op = "register"
     /\ requests # <<>>
     /\ lastCall.resp # NoResponse
     /\ lastCall.resp.status = 200
     /\ lastCall.resp.id = "")
    => /\ clientState = "failed"
       /\ ~lastCall.out
       /\ lastCall.ret # Nil
       /\ lastCall.resp.body.json => lastCall.ret = Wrap(RegisterErr[1], NoIdErr)
       /\ pc = "done"
       /\ runResult = lastCall.ret
       /\ initCalls = 0
       /\ shutdownCalls = <<>>

C21_Witness ==
    /\ pc = "done"
    /\ lastCall.resp.status = 200
    /\ lastCall.resp.body = ResultBody
    /\ lastCall.resp.id = ""
    /\ runResult = Wrap(RegisterErr[1], NoIdErr)
    /\ initCalls = 0

\* The LambdaAPIError values a caller may match against.
APIErrorValues ==
    {LambdaAPIError(st, b.errorType, b.errorMessage) :
        st \in {200, 202, 403}, b \in ErrorBodies \cup {ResultBody}}

\* C22: for every call of the Client, a response whose status is not the wanted
\* one yields no result and an error: when the body is a structured platform
\* error the error matches (errors.Is) the LambdaAPIError with the response's
\* status, error type and message and no other one; when the body cannot be
\* parsed the error is an opaque one.
C22_TypedError ==
    (/\ lastCall.op # "none"
     /\ lastCall.resp # NoResponse
     /\ lastCall.resp.status # WantStatus(lastCall.op))
    => /\ ~lastCall.out
       /\ lastCall.ret # Nil
       /\ lastCall.resp.body.json
          => \A target \in APIErrorValues :
                ErrorsIs(lastCall, target)
                <=> target = LambdaAPIError(lastCall.resp.status,
                                            lastCall.resp.body.errorType,
                                            lastCall.resp.body.errorMessage)
       /\ ~lastCall.resp.body.json
          => /\ lastCall.err.kind = "opaque"
             /\ \A target \in APIErrorValues : ~ErrorsIs(lastCall, target)

C22_Witness ==
    /\ lastCall.op = "init/error"
    /\ lastCall.resp.status = 403
    /\ lastCall.resp.body.errorType = "Forbidden"
    /\ ErrorsIs(lastCall, LambdaAPIError(403, "Forbidden", "access denied"))
    /\ ~lastCall.out

\* C23: during one Run of the receiver the subscribe call is made at most once,
\* and only when Processor.Init has returned without error and the listener has
\* been started; when Processor.Init or the start of the listener has failed,
\* no subscribe call is made.
C23_SubscribeOnce ==
    /\ [](/\ procCalls.subscribe <= 1
          /\ procCalls.subscribe = 1 => (procCalls.init = 1 /\ srv # "new")
          /\ (Is(initErr, UserInitErr) \/ Is(initErr, ListenErr)) => procCalls.subscribe = 0)
    /\ [][procCalls'.subscribe # procCalls.subscribe
            => /\ procCalls.subscribe = 0
               /\ procCalls.init = 1
               /\ initErr = Nil
               /\ srv \in {"serving", "failed"}]_vars

C23_Witness ==
    /\ kind = "receiver"
    /\ pc = "done"
    /\ procCalls.subscribe = 1
    /\ procCalls.init = 1
    /\ initErr = Nil

\* C24: whatever client options the user passes to logsapi.Run or
\* telemetryapi.Run, event-type options included, the register request asks for
\* the SHUTDOWN event type only; so no INVOKE event is delivered and the
\* receiver's HandleInvokeEvent is never called.
C24_ShutdownOnly ==
    /\ \A userOpts \in UserClientOptions :
          RegisterEventTypes(ReceiverClientOptions(userOpts)) = {"SHUTDOWN"}
    /\ (kind = "receiver" /\ requests # <<>>)
       => /\ requests[1].op = "register"
          /\ requests[1].events = {"SHUTDOWN"}
          /\ \A i \in 1..Len(polls) : polls[i].ev.type # "INVOKE"
          /\ handled = <<>>
          /\ pc # "handle"

C24_Witness ==
    /\ kind = "receiver"
    /\ pc = "done"
    /\ requests # <<>>
    /\ requests[1].events = {"SHUTDOWN"}
    /\ RegisterEventTypes(<<{"INVOKE"}>>) = {"INVOKE"}
    /\ RegisterEventTypes(ReceiverClientOptions(<<{"INVOKE"}>>)) = {"SHUTDOWN"}
    /\ shutdownEvent \in ShutdownEvents
    /\ handled = <<>>

\* C25: when registration fails, Run returns the registration error at once:
\* Init, HandleInvokeEvent and Shutdown are not called, no poll is made and
\* neither an init error nor an exit error is reported.
C25_RegistrationFailure ==
    clientState = "failed"
    => /\ pc = "done"
       /\ runResult # Nil
       /\ runResult = lastCall.ret
       /\ runResult = EnvErr \/ runResult[1] = RegisterErr[1]
       /\ initCalls = 0
       /\ procCalls.init = 0 /\ procCalls.shutdown = 0 /\ procCalls.subscribe = 0
       /\ handled = <<>>
       /\ shutdownCalls = <<>>
       /\ polls = <<>>
       /\ reports = <<>>

C25_Witness ==
    /\ clientState = "failed"
    /\ pc = "done"
    /\ lastCall.err = LambdaAPIError(403, "Forbidden", "access denied")
    /\ runResult = Wrap(RegisterErr[1], Wrap("register http call failed", <<"Lambda API error">>))
    /\ reports = <<>>

\* C26: a failure of the init-error or exit-error report is not escalated: what
\* Run returns is determined by the errors of Extension.Init, of the loop and of
\* Extension.Shutdown alone, whether the report call succeeded or failed.
C26_ReportNotEscalated ==
    (pc = "done" /\ clientState = "registered")
    => runResult = (IF initErr # Nil THEN Wrap("Extension.Init failed", initErr)
                    ELSE IF loopErr # Nil THEN Wrap("extension loop failed", loopErr)
                    ELSE IF extShutdownErr # Nil
                         THEN Wrap("Extension.Shutdown failed", extShutdownErr)
                    ELSE Nil)

C26_Witness ==
    /\ pc = "done"
    /\ initErr = Nil
    /\ loopErr = Nil
    /\ ExitReports # {}
    /\ \A i \in ExitReports : ~reports[i].ok
    /\ runResult = Wrap("Extension.Shutdown failed", extShutdownErr)

\* A string with every byte that is not valid UTF-8 replaced by U+FFFD, and a
\* request with its URL and type names so replaced.
ToValidUTF8(str) == [i \in DOMAIN str |-> IF str[i] = BadByte THEN Replacement ELSE str[i]]
CoercedRequest(req) ==
    [req EXCEPT !.destination[1].URI = ToValidUTF8(@),
                !.types.elems = [i \in DOMAIN @ |-> ToValidUTF8(@[i])]]

\* C27 as stated: encoding a request built by NewLogsSubscribeRequest or
\* NewTelemetrySubscribeRequest and decoding it back yields an equal request,
\* for every such request.
C27_RoundTripAlways == sub.step = "decoded" => sub.back = sub.req

\* C27: encoding a request built by NewLogsSubscribeRequest or
\* NewTelemetrySubscribeRequest and decoding it back yields the request with
\* the bytes of its URL and type names that are not valid UTF-8 replaced by
\* U+FFFD: a request equal field for field (schema version, types, buffering,
\* destination) when these strings are valid UTF-8.
C27_RoundTrip ==
    sub.step = "decoded"
    => /\ sub.back = CoercedRequest(sub.req)
       /\ CoercedRequest(sub.req) = sub.req => sub.back = sub.req
       /\ sub.back.schemaVersion = sub.req.schemaVersion
       /\ sub.back.buffering = sub.req.buffering

C27_Witness ==
    /\ sub.step = "decoded"
    /\ sub.api = "logs"
    /\ sub.req.types = Slice(<<Platform, Function>>)
    /\ sub.req.buffering # NilPtr
    /\ sub.req.buffering[1].maxBytes = 262144
    /\ sub.req.destination[1].URI = <<"http://sandbox:8080", "<">>
    /\ sub.body.destination[1].URI # sub.req.destination[1].URI
    /\ sub.back = sub.req

\* C28: after the worker has stopped at the first Process failure the channel
\* is still drained: when the program can take no further step, no push
\* handler is left blocked sending an event on the channel.
C28_DrainedAfterFailure ==
    (kind = "receiver" /\ procFailed > 0 /\ ~ENABLED ProgramNext)
    => \A h \in Handlers : hpc[h] # "send"

\* C29: the worker stops at the first Process failure: Process fails at most
\* once, the failing call is the last one, after it no event is received or
\* passed to Process, and the events passed to Process are exactly the events
\* received from the channel, each once, in the order they were received.
C29_StopAtFirstFailure ==
    /\ [](/\ procFailed <= 1
          /\ procFailed > 0
             => \A w \in WorkerIds : worker[w] \in {"none", "exit", "done"}
          /\ {passed[i] : i \in DOMAIN passed}
             = {m \in Handlers \X (1..MaxBatchLen) : m[2] <= hidx[m[1]]}
          /\ \A i, j \in DOMAIN passed : passed[i] = passed[j] => i = j)
    /\ [][/\ procFailed > 0 => (passed' = passed /\ procFailed' = procFailed)
          /\ passed' # passed
             => \E h \in Handlers : hpc[h] = "send" /\ passed' = Append(passed, NextMsg(h))
          /\ procFailed' # procFailed => passed # <<>>]_vars

C29_Witness ==
    /\ procFailed = 1
    /\ Len(passed) = 2
    /\ \E h \in Handlers : hpc[h] = "send"
    /\ \A w \in WorkerIds : worker[w] \in {"none", "done"}

\* The events of batch h among those passed to Process, in the order passed.
PassedOfBatch(h) ==
    LET OfBatch(m) == m[1] = h IN SelectSeq(passed, OfBatch)

\* C30: under concurrent pushes the events of each batch are passed to Process
\* in their array order: the events passed to Process, restricted to one batch,
\* are a prefix of that batch in its original order, also when events of
\* different batches interleave.
C30_BatchOrder ==
    \A h \in Handlers :
       /\ Len(PassedOfBatch(h)) <= MaxBatchLen
       /\ PassedOfBatch(h) = [k \in 1..Len(PassedOfBatch(h)) |-> <<h, k>>]

C30_Witness ==
    /\ overlap
    /\ passed = <<<<1, 1>>, <<2, 1>>, <<1, 2>>, <<2, 2>>>>

\* C32: on every exit path of Decode (success, malformed array, element decode
\* error, interruption, and the panic of a send on the closed channel) the body
\* has been read to its end and closed; it is not closed while Decode runs.
C32_BodyDrainedAndClosed ==
    \A h \in Handlers :
       /\ (hpc[h] = "done" /\ hreq[h].method = "POST")
          => (hreq[h].drained /\ hreq[h].closed)
       /\ hpc[h] \in {"more", "send"} => (~hreq[h].drained /\ ~hreq[h].closed)

C32_Witness ==
    /\ hpc[1] = "done" /\ hresp[1] = 200 /\ hreq[1].closed /\ hreq[1].drained
    /\ hpc[2] = "done" /\ hresp[2] = 500 /\ hreq[2].closed /\ hreq[2].drained
    /\ hreq[2].body = <<"[", "ok", "bad">>

\* What ServeHTTP reports when Decode was interrupted.
InterruptedErr ==
    Wrap("decoding failed or interrupted",
         Wrap("decoding was interrupted with context error", CtxErr))

\* Handler h decodes an element in this step and finds the context done.
FoundCancelled(h) ==
    /\ hpc[h] = "more"
    /\ DecodeCtxDone
    /\ hreq'[h].body = Append(hreq[h].body, "ok")

\* C31: when Decode finds the context cancelled at the check made after an
\* element has been decoded, it returns the interruption error (answered 500
\* and reported on the error channel when that has room) and sends neither
\* that element nor any later one; the elements sent before remain sent.
C31_Interrupted ==
    [][\A h \in Handlers :
          /\ FoundCancelled(h)
             => /\ hpc'[h] = "done"
                /\ hresp'[h] = 500
                /\ errCh = <<>> => errCh' = <<InterruptedErr>>
                /\ passed' = passed
                /\ hidx'[h] = hidx[h]
          /\ hpc[h] = "done"
             => /\ hpc'[h] = "done"
                /\ hidx'[h] = hidx[h]
                /\ hreq'[h].body = hreq[h].body
          /\ IsPrefix(passed, passed')]_vars

C31_Witness ==
    /\ decodeCancelled
    /\ hpc[1] = "done"
    /\ hresp[1] = 500
    /\ hreq[1].body = <<"[", "ok", "ok">>
    /\ hidx[1] = 1
    /\ passed = <<<<1, 1>>>>
    /\ Is(loopErr, InterruptedErr) \/ errCh = <<InterruptedErr>>

\* C40: once the decode context is cancelled it stays cancelled, and each
\* in-flight Decode sends at most one further event: only a Decode that had
\* passed its check before the cancellation still sends, every send is
\* followed by a new check, and no check made after the cancellation leads to
\* a send.
C40_OneMoreSend ==
    [][/\ DecodeCtxDone => DecodeCtxDone'
       /\ \A h \in Handlers :
             /\ (DecodeCtxDone /\ hpc[h] # "send") => hpc'[h] # "send"
             /\ hidx'[h] # hidx[h]
                => /\ hpc[h] = "send"
                   /\ hidx'[h] = hidx[h] + 1
                   /\ hpc'[h] = "more"]_vars

C40_Witness ==
    /\ decodeCancelled
    /\ hpc[1] = "send"
    /\ hidx[1] = 1
    /\ ENABLED DecodeSend(1, 1)

\* C33: after HandleInvokeEvent has returned an error the loop has ended with
\* that error, wrapped; no further poll is started and HandleInvokeEvent is not
\* called again.
C33_HandlerFailureEndsLoop ==
    /\ [](Is(loopErr, UserHandleErr)
          => /\ loopErr = Wrap("Extension.HandleInvokeEvent failed", UserHandleErr)
             /\ LoopExited
             /\ handled # <<>>)
    /\ [][/\ Is(loopErr, UserHandleErr)
             => (Len(polls') = Len(polls) /\ handled' = handled /\ loopErr' = loopErr)
          /\ (pc = "handle" /\ loopErr' # loopErr)
             => (pc' = "shutdown" /\ Is(loopErr', UserHandleErr))]_vars

C33_Witness ==
    /\ pc = "done"
    /\ loopErr = Wrap("Extension.HandleInvokeEvent failed", UserHandleErr)
    /\ Len(handled) = 2
    /\ Len(polls) = 2
    /\ runResult = Wrap("extension loop failed", loopErr)

\* The texts loop wraps the four causes of its failure with.
LoopFailures ==
    {"Client.NextEvent failed", "Extension.Err() signaled an error",
     "context cancelled before calling Client.NextEvent",
     "Extension.HandleInvokeEvent failed"}

\* C34: when the loop has ended because the poll failed, Err() signalled, the
\* parent context was cancelled or the invocation handler failed, there is no
\* Shutdown event, the user's Shutdown is called with the reason ExtensionError
\* and the loop error (not nil), and Run returns an error that is not nil.
C34_LoopFailure ==
    (initErr = Nil /\ loopErr # Nil)
    => /\ loopErr[1] \in LoopFailures
       /\ shutdownEvent = NoEvent
       /\ shutdownCalls # <<>>
          => /\ shutdownCalls[1].reason = ExtensionError
             /\ shutdownCalls[1].err # Nil
             /\ shutdownCalls[1].err = Wrap("extension loop failed", loopErr)
       /\ pc \in {"shutdownReturned", "done"} => Len(shutdownCalls) = 1
       /\ pc = "done" => (runResult # Nil /\ Is(runResult, loopErr))

C34_Witness ==
    /\ pc = "done"
    /\ loopErr = Wrap("Client.NextEvent failed", NextEventErr)
    /\ shutdownCalls[1].reason = ExtensionError
    /\ shutdownCalls[1].err = Wrap("extension loop failed", loopErr)
    /\ runResult = Wrap("extension loop failed", loopErr)

\* C35: the receiver's Shutdown calls the processor's Shutdown also when the
\* server stop failed, and returns the processor's error when it is not nil,
\* otherwise the error of the server stop when it is not nil, otherwise nil.
C35_ShutdownResult ==
    (RecvShutdownReturned /\ shutdownCalls # <<>>)
    => /\ procCalls.shutdown = 1
       /\ extShutdownErr =
             (IF procCalls.shutdownErr # Nil
                 THEN Wrap("EventProcessor.Shutdown failed", procCalls.shutdownErr)
              ELSE IF srvErr # Nil THEN srvErr
              ELSE Nil)

C35_Witness ==
    /\ RecvShutdownReturned
    /\ shutdownCalls # <<>>
    /\ srvErr # Nil
    /\ procCalls.shutdown = 1
    /\ procCalls.shutdownErr = UserShutdownErr
    /\ extShutdownErr = Wrap("EventProcessor.Shutdown failed", UserShutdownErr)

\* Init of the receiver failed in EventProcessor.Init or in net.Listen.
InitFailedBeforeServing ==
    /\ kind = "receiver"
    /\ initErr \in {Wrap("EventProcessor.Init failed", UserInitErr),
                    Wrap("could not start event receiving HTTP server", ListenErr)}

\* A step of the receiver's Shutdown, or the end of the processing goroutine it
\* waits for.
ShutdownStep ==
    \/ RecvShutdownCancel
    \/ RecvSrvShutdownBegin
    \/ RecvSrvShutdownReturn
    \/ RecvCloseEvents
    \/ RecvWaitProcessing
    \/ RecvProcShutdown
    \/ \E w \in WorkerIds : WorkerFinish(w)

\* C36: when Processor.Init failed or the listener could not be started, the
\* receiver's Shutdown called by Run is never stuck: no handler runs, at each of
\* its positions Shutdown or the processing goroutine it waits for can take its
\* next step (the goroutine was started before Processor.Init, so the
\* processing-finished signal comes), and once Shutdown has returned the
\* processor's Shutdown has been called exactly once.
C36_InitFailureShutdown ==
    InitFailedBeforeServing
    => /\ ActiveHandlers = {}
       /\ pc \in {"shutdown", "sd_srv", "sd_srvWait", "sd_close", "sd_wait", "sd_proc"}
            => ENABLED ShutdownStep
       /\ pc \in {"shutdown", "sd_srv", "sd_srvWait", "sd_close", "sd_wait", "sd_proc"}
            => procCalls.shutdown = 0
       /\ pc \in {"shutdownReturned", "done"}
            => (processingDone /\ srvErr = Nil /\ procCalls.shutdown = 1)

C36_Witness ==
    /\ InitFailedBeforeServing
    /\ initErr = Wrap("could not start event receiving HTTP server", ListenErr)
    /\ pc = "done"
    /\ processingDone
    /\ procCalls.init = 1
    /\ procCalls.shutdown = 1

\* A step that lets poll goroutine i go on: its NextEvent call returns, or the
\* loop's select receives what the goroutine is sending.
PollGoroutineStep(i) ==
    \/ PollEvent(i)
    \/ PollError(i)
    \/ PollCancelled(i)
    \/ LoopRecvEvent /\ polls'[i].st # polls[i].st
    \/ LoopRecvPollErr /\ polls'[i].st # polls[i].st

\* C37: when the loop has returned on an Err() signal or on the cancellation of
\* the parent context, every poll goroutine whose NextEvent call is outstanding
\* or was ended by the cancellation has ended or can still take a step towards
\* its end: none stays blocked for good.
C37_PollGoroutineEnds ==
    (/\ LoopExited
     /\ loopErr # Nil
     /\ loopErr[1] \in {"Extension.Err() signaled an error",
                        "context cancelled before calling Client.NextEvent"})
    => \A i \in 1..Len(polls) :
          (polls[i].st = "calling" \/ Is(polls[i].err, CtxErr))
          => (polls[i].st = "exited" \/ ENABLED PollGoroutineStep(i))

\* The polls whose result the loop has not consumed.
PollsInFlight == {i \in 1..Len(polls) : polls[i].st # "exited"}

\* C39: at most one poll is in flight at any time; while the loop is about to
\* start a poll or HandleInvokeEvent runs, none is; and a poll is started only
\* by the loop at the head of an iteration, when the result of every earlier
\* poll has been consumed and HandleInvokeEvent is not running.
C39_OnePollInFlight ==
    /\ [](/\ Cardinality(PollsInFlight) <= 1
          /\ PollsInFlight \subseteq {Len(polls)}
          /\ pc \in {"loop", "handle"} => PollsInFlight = {})
    /\ [][Len(polls') # Len(polls)
          => /\ Len(polls') = Len(polls) + 1
             /\ pc = "loop"
             /\ PollsInFlight = {}
             /\ Len(polls) > 0 /\ polls[Len(polls)].ev.type = "INVOKE"
                  => (handled # <<>> /\ handled[Len(handled)].ev = polls[Len(polls)].ev)]_vars

C39_Witness ==
    /\ Len(polls) = 2
    /\ polls[1].ev.type = "INVOKE"
    /\ polls[1].st = "exited"
    /\ polls[2].st = "calling"
    /\ Len(handled) = 1
    /\ pc = "select"

\* The three events of triplet t belong to one phase and arrived as Start,
\* RuntimeDone, Report.
ReceivedInOrder(t) ==
    /\ IsValid(t)
    /\ t.Start.n < t.RuntimeDone.n
    /\ t.RuntimeDone.n < t.Report.n

\* C38: every triplet passed to the exporter is made of a Start, a RuntimeDone
\* and a Report event of one phase that were received in that order; a Process
\* call for a Report event that passes nothing to the exporter returns an error.
C38_ExportInOrderOnly ==
    otelProc.step = "ready"
    => /\ \A k \in DOMAIN otelProc.exports : ReceivedInOrder(otelProc.exports[k])
       /\ (otelProc.last.event.Type \in ReportTypes /\ otelProc.last.exported = <<>>)
            => otelProc.last.err # Nil

====
